---- MODULE Spec2Model ----
(***************************************************************************)
(* checkSIGNALv2: the indicator-to-score pipeline.                         *)
(*                                                                         *)
(* Number representation.  Python floats are modelled as fixed-point       *)
(* hundredths: a price of 100.0 is 10000, a score of 50.0 is 5000, an RSI  *)
(* of 70 is 7000, a slope of -1.0 (percent) is -100.  A value that may be  *)
(* None is a tuple: None is << >> and the number v is << v >>.             *)
(* Integer-valued scores (highprice_score, low_score, strengths) are kept  *)
(* as plain integers, as in the source.                                    *)
(***************************************************************************)
EXTENDS Integers, Sequences, FiniteSets, TLC

VARIABLES
    df,       \* the caller's DataFrame object: close column and column names
    base,     \* the scalars handed to compute_indicators with the frame
    tech,     \* the dict returned by compute_indicators (None before / on raise)
    raised,   \* the exception the last compute_indicators call raised
    pc,       \* position of the caller: "input" | "fetched" | "done"
    call,     \* the last direct call of a scoring function: name, args, ret
    ui,       \* main(): the API key, the ticker, what the run has rendered
    session_state   \* st.session_state["q_correction_result"], None if unset

vars == << df, base, tech, raised, pc, call, ui, session_state >>

----------------------------------------------------------------------------
(* Python values *)

None == << >>

Some(v) == << v >>

Val(x) == x[1]

\* Python truthiness of an Optional[float]: None and 0 are falsy
Truthy(x) == x # None /\ Val(x) # 0

\* "x not in (None, 0)"
NotNoneOrZero(x) == x # None /\ Val(x) # 0

Min2(a, b) == IF a <= b THEN a ELSE b

Max2(a, b) == IF a >= b THEN a ELSE b

Abs(a) == IF a < 0 THEN -a ELSE a

\* integer nearest to a / b, b # 0 (ties away from the floor)
RoundDiv(a, b) ==
    IF b > 0 THEN (2 * a + b) \div (2 * b)
    ELSE (2 * (-a) + (-b)) \div (2 * (-b))

\* round(x, 1): x given as the exact fraction num / den of a tenth (den > 0),
\* result in tenths, Python's round-half-to-even
RoundHalfEven(num, den) ==
    LET q == num \div den
        r == num % den
    IN  IF 2 * r < den THEN q
        ELSE IF 2 * r > den THEN q + 1
        ELSE IF q % 2 = 0 THEN q ELSE q + 1

\* exceptions a float division can raise, as values distinct from None and << v >>
ZeroDivisionError == << 0, 0 >>

TypeError == << 1, 1 >>

IsError(x) == Len(x) = 2

\* a / b on floats where b may be None or 0; scale is the fixed-point factor
\* the quotient is multiplied by (100 for a plain ratio of two hundredths)
PyDiv(a, b, scale) ==
    IF b = None THEN TypeError
    ELSE IF Val(b) = 0 THEN ZeroDivisionError
    ELSE Some(RoundDiv(a * scale, Val(b)))

\* mutant of _clamp: no clamping
_clamp_identity(x, lo, hi) == x

_clamp(x, lo, hi) == Max2(lo, Min2(hi, x))

\* floor of the square root, by bisection on lo..hi
RECURSIVE ISqrtIn(_, _, _)
ISqrtIn(v, lo, hi) ==
    IF lo >= hi THEN lo
    ELSE LET mid == (lo + hi + 1) \div 2
         IN  IF mid * mid <= v THEN ISqrtIn(v, mid, hi) ELSE ISqrtIn(v, lo, mid - 1)

ISqrt(v) == ISqrtIn(v, 0, 46340)

----------------------------------------------------------------------------
(* pandas: rolling windows over the close column.  close is a sequence of   *)
(* Optional values, row 1 the oldest; nulls is the set of its null rows.    *)
(* A rolling(w) statistic is null on a row unless the w rows ending there   *)
(* are all non-null.                                                        *)

NullRows(close) == {j \in 1..Len(close) : close[j] = None}

WindowFull(nulls, i, w) ==
    /\ i >= w
    /\ \A j \in nulls : j <= i - w \/ j > i

RECURSIVE SumClose(_, _, _)
SumClose(close, lo, hi) ==
    IF lo > hi THEN 0 ELSE Val(close[hi]) + SumClose(close, lo, hi - 1)

\* Series.rolling(w).mean() on a row whose window is full
RollingMean(close, i, w) == RoundDiv(SumClose(close, i - w + 1, i), w)

\* sum of squared differences from the value c
RECURSIVE SumSqShift(_, _, _, _)
SumSqShift(close, lo, hi, c) ==
    IF lo > hi THEN 0
    ELSE (Val(close[hi]) - c) * (Val(close[hi]) - c) + SumSqShift(close, lo, hi - 1, c)

\* Series.rolling(w).std() on a row whose window is full: the sample standard
\* deviation (ddof = 1), sqrt((w * sum(y^2) - (sum y)^2) / (w * (w - 1))) on
\* the values y shifted by close[i]
RollingStd(close, i, w) ==
    LET c  == Val(close[i])
        s  == SumClose(close, i - w + 1, i) - w * c
        q  == SumSqShift(close, i - w + 1, i, c)
    IN  ISqrt((w * q - s * s) \div (w * (w - 1)))

----------------------------------------------------------------------------
(* app/modules/indicators.py: the indicator columns *)

\* the columns calc_moving_averages, calc_bollinger_bands and calc_rsi assign
calc_moving_averages_cols == {"25MA", "50MA", "75MA"}

calc_bollinger_bands_cols == {"20MA", "20STD", "BB_+1s", "BB_+2s", "BB_-1s", "BB_-2s"}

calc_rsi_cols == {"RSI"}

\* the rolling window behind each column: the column is null on row i unless
\* WindowFull(nulls, i, ColumnWindow(col))
ColumnWindow(col) ==
    CASE col = "Close" -> 1
      [] col = "25MA" -> 25
      [] col = "50MA" -> 50
      [] col = "75MA" -> 75
      [] col \in calc_bollinger_bands_cols -> 20
      [] col = "RSI" -> 15

\* df["20MA"] + k * df["20STD"]
Band(ma_20, std_20, k) == ma_20 + k * std_20

\* delta = close.diff(); gain = delta.clip(lower=0); loss = -delta.clip(upper=0)
Delta(close, j) == Val(close[j]) - Val(close[j - 1])

RECURSIVE SumGain(_, _, _)
SumGain(close, lo, hi) ==
    IF lo > hi THEN 0 ELSE Max2(Delta(close, hi), 0) + SumGain(close, lo, hi - 1)

RECURSIVE SumLoss(_, _, _)
SumLoss(close, lo, hi) ==
    IF lo > hi THEN 0 ELSE Max2(-Delta(close, hi), 0) + SumLoss(close, lo, hi - 1)

\* 100 - 100 / (1 + avg_gain / avg_loss) with avg_loss.replace(0, 1e-10).
\* g and l are the 14-row sums of gains and losses (the averages' common
\* divisor cancels).  With l = 0 the divisor is 1e-10: rs is 0 for g = 0
\* (RSI 0) and at least 7e6 for g >= 0.01 (RSI within 1.4e-5 of 100, which is
\* 100.00 at this resolution).
RSIFrom(g, l) ==
    IF l # 0 THEN 10000 - RoundDiv(10000 * l, g + l)
    ELSE IF g = 0 THEN 0
    ELSE 10000

\* calc_rsi: the RSI column on a row with period differences behind it
calc_rsi(close, i, period) ==
    RSIFrom(SumGain(close, i - period + 1, i), SumLoss(close, i - period + 1, i))

\* series.dropna(): the rows on which the column of window w is non-null
NonNullRows(n, nulls, w) == {i \in 1..n : WindowFull(nulls, i, w)}

\* s.iloc[-k] as a row number of the frame: the k-th row of S counted from
\* the end, searched downwards from row top (S has at least k rows <= top)
RECURSIVE ILocFromEnd(_, _, _)
ILocFromEnd(S, top, k) ==
    IF top \in S
    THEN IF k = 1 THEN top ELSE ILocFromEnd(S, top - 1, k - 1)
    ELSE ILocFromEnd(S, top - 1, k)

\* calc_slope(df[col], window) for the moving average of w rows, in hundredths
\* of a percent
calc_slope(close, nulls, w, window) ==
    LET s == NonNullRows(Len(close), nulls, w)
    IN  IF Cardinality(s) < window + 1 THEN 0
        ELSE LET start == RollingMean(close, ILocFromEnd(s, Len(close), window + 1), w)
                 end   == RollingMean(close, ILocFromEnd(s, Len(close), 1), w)
             IN  IF start = 0 THEN 0
                 ELSE RoundDiv((end - start) * 10000, start)

\* slope_arrow(df[col]): direction of the last two non-null values
\* ("up" the up-right arrow, "down" the down-right arrow, "flat" the right arrow)
slope_arrow(close, nulls, w) ==
    LET s == NonNullRows(Len(close), nulls, w)
    IN  IF Cardinality(s) < 2 THEN "flat"
        ELSE LET diff == RollingMean(close, ILocFromEnd(s, Len(close), 1), w)
                         - RollingMean(close, ILocFromEnd(s, Len(close), 2), w)
             IN  IF diff > 0 THEN "up" ELSE IF diff < 0 THEN "down" ELSE "flat"

\* the subset of df.dropna(subset=[...]) in compute_indicators
dropna_subset == {"Close", "25MA", "50MA", "75MA", "BB_+1s", "BB_+2s", "BB_-1s", "BB_-2s", "RSI"}

\* the rows df.dropna keeps: every column of the subset non-null
df_valid_rows(n, nulls) ==
    LET windows == {ColumnWindow(col) : col \in dropna_subset}
    IN  {i \in 1..n : \A w \in windows : WindowFull(nulls, i, w)}

----------------------------------------------------------------------------
(* app/modules/t_logic.py.  Prices, averages, bands, 52-week values, RSI    *)
(* and T scores are hundredths; slope_25 is hundredths of a percent.        *)
(* Display strings are romanised:                                           *)
(*   "bb_plus2" hijou ni wuridaka (+2s ijou)   "bb_plus1" yaya waridaka     *)
(*   "bb_minus2" kado ni uraresugi             "bb_minus1" urare-gimi       *)
(*   "bb_neutral" heikin-ken                                                *)
(*   "rsi_unknown" RSI fumei        "bargain" baagen (tsuyoi oshime)        *)
(*   "moderate_pullback" sokosoko oshime   "mild_pullback" karui oshime     *)
(*   "high_zone_alert" takane-ken (you chuui!)                              *)
(*   "no_signal" oshime signal nashi                                        *)
(*   "falling_knife" ochiru naifu (you chuui)                               *)
(*   "high_price_zone" takane-ken (you chuui)                               *)
(*   "timing_worse" timing akka (you chuui)                                 *)
(*   "no_signal_wait" oshime signal nashi - yousu-mi                        *)
(***************************************************************************)

\* mutant of judge_bb_signal: strict comparisons
judge_bb_signal_strict(price, bb_plus1, bb_plus2, bb_minus1, bb_minus2) ==
    IF price > bb_plus2 THEN [text |-> "bb_plus2", icon |-> "fire", strength |-> 3]
    ELSE IF price > bb_plus1 THEN [text |-> "bb_plus1", icon |-> "chart_up", strength |-> 2]
    ELSE IF price < bb_minus2 THEN [text |-> "bb_minus2", icon |-> "ice", strength |-> 3]
    ELSE IF price < bb_minus1 THEN [text |-> "bb_minus1", icon |-> "chart_down", strength |-> 2]
    ELSE [text |-> "bb_neutral", icon |-> "white", strength |-> 1]

judge_bb_signal(price, bb_plus1, bb_plus2, bb_minus1, bb_minus2) ==
    IF price >= bb_plus2 THEN [text |-> "bb_plus2", icon |-> "fire", strength |-> 3]
    ELSE IF price >= bb_plus1 THEN [text |-> "bb_plus1", icon |-> "chart_up", strength |-> 2]
    ELSE IF price <= bb_minus2 THEN [text |-> "bb_minus2", icon |-> "ice", strength |-> 3]
    ELSE IF price <= bb_minus1 THEN [text |-> "bb_minus1", icon |-> "chart_down", strength |-> 2]
    ELSE [text |-> "bb_neutral", icon |-> "white", strength |-> 1]

\* x <= y * 1.10 and the like, on hundredths: x * 100 <= y * 110
LeqTimes(x, y, pct) == x * 100 <= y * pct

LtTimes(x, y, pct) == x * 100 < y * pct

\* mutant of is_high_price_zone: the criteria as an if / elif chain
is_high_price_zone_first_match(price, ma_25, ma_50, bb_plus1, rsi, per, pbr, high_52w) ==
    IF LeqTimes(price, ma_25, 110) /\ LeqTimes(price, ma_50, 110) THEN 20
    ELSE IF price <= bb_plus1 THEN 20
    ELSE IF rsi # None /\ Val(rsi) < 7000 THEN 15
    ELSE IF Truthy(high_52w) /\ LtTimes(price, Val(high_52w), 95) THEN 15
    ELSE 0

is_high_price_zone(price, ma_25, ma_50, bb_plus1, rsi, per, pbr, high_52w) ==
    (IF LeqTimes(price, ma_25, 110) /\ LeqTimes(price, ma_50, 110) THEN 20 ELSE 0)
    + (IF price <= bb_plus1 THEN 20 ELSE 0)
    + (IF rsi # None /\ Val(rsi) < 7000 THEN 15 ELSE 0)
    + (IF Truthy(high_52w) /\ LtTimes(price, Val(high_52w), 95) THEN 15 ELSE 0)

is_low_price_zone(price, ma_25, ma_50, bb_minus1, bb_minus2, rsi, per, pbr, low_52w) ==
    (IF LtTimes(price, ma_25, 90) /\ LtTimes(price, ma_50, 90) THEN 20 ELSE 0)
    + (IF price < bb_minus1 THEN 15 ELSE 0)
    + (IF price < bb_minus2 THEN 20 ELSE 0)
    + (IF rsi # None /\ Val(rsi) < 3000 THEN 15 ELSE 0)
    + (IF Truthy(low_52w) /\ LeqTimes(price, Val(low_52w), 105) THEN 15 ELSE 0)

Max3(a, b, c) == Max2(a, Max2(b, c))

Min3(a, b, c) == Min2(a, Min2(b, c))

\* is_flat_ma raises ZeroDivisionError when max(ma_values) is 0 and the minimum is not
is_flat_ma_raises(ma_25, ma_50, ma_75) ==
    /\ Min3(ma_25, ma_50, ma_75) # 0
    /\ Max3(ma_25, ma_50, ma_75) = 0

\* (max - min) / max <= tolerance, tolerance in hundredths (0.03 is 3)
is_flat_ma(ma_25, ma_50, ma_75, tolerance) ==
    LET mx == Max3(ma_25, ma_50, ma_75)
        mn == Min3(ma_25, ma_50, ma_75)
    IN  IF mn = 0 THEN FALSE
        ELSE IF mx > 0 THEN (mx - mn) * 100 <= tolerance * mx
        ELSE (mx - mn) * 100 >= tolerance * mx

\* mutant of pullback_strength: the RSI rule of strength 2 without its band test
pullback_strength_no_band(price, ma_25, ma_75, bb_minus1, rsi) ==
    IF price <= ma_75 /\ rsi < 4000 /\ price <= bb_minus1 THEN 3
    ELSE IF (price <= ma_75 /\ price < bb_minus1) \/ rsi < 3000 THEN 2
    ELSE IF LtTimes(price, ma_25, 97) /\ rsi < 3750 /\ price <= bb_minus1 THEN 1
    ELSE 0

\* the three pullback rules of judge_signal, tried in order (rsi is present)
pullback_strength(price, ma_25, ma_75, bb_minus1, rsi) ==
    IF price <= ma_75 /\ rsi < 4000 /\ price <= bb_minus1 THEN 3
    ELSE IF (price <= ma_75 /\ price < bb_minus1) \/ (rsi < 3000 /\ price < bb_minus1) THEN 2
    ELSE IF LtTimes(price, ma_25, 97) /\ rsi < 3750 /\ price <= bb_minus1 THEN 1
    ELSE 0

\* mutant of judge_signal: the high-price-zone rule is tried before the pullback rules
judge_signal_zone_first(price, ma_25, ma_50, ma_75, bb_minus1, bb_plus1, bb_minus2, rsi, high_52w, low_52w) ==
    IF rsi = None THEN [text |-> "rsi_unknown", icon |-> "white", strength |-> 0]
    ELSE IF is_high_price_zone(price, ma_25, ma_50, bb_plus1, rsi, None, None, high_52w) <= 40
    THEN [text |-> "high_zone_alert", icon |-> "fire", strength |-> 0]
    ELSE IF pullback_strength(price, ma_25, ma_75, bb_minus1, Val(rsi)) = 3
    THEN [text |-> "bargain", icon |-> "red", strength |-> 3]
    ELSE IF pullback_strength(price, ma_25, ma_75, bb_minus1, Val(rsi)) = 2
    THEN [text |-> "moderate_pullback", icon |-> "orange", strength |-> 2]
    ELSE IF pullback_strength(price, ma_25, ma_75, bb_minus1, Val(rsi)) = 1
    THEN [text |-> "mild_pullback", icon |-> "yellow", strength |-> 1]
    ELSE [text |-> "no_signal", icon |-> "green", strength |-> 0]

judge_signal(price, ma_25, ma_50, ma_75, bb_minus1, bb_plus1, bb_minus2, rsi, high_52w, low_52w) ==
    IF rsi = None THEN [text |-> "rsi_unknown", icon |-> "white", strength |-> 0]
    ELSE IF pullback_strength(price, ma_25, ma_75, bb_minus1, Val(rsi)) = 3
    THEN [text |-> "bargain", icon |-> "red", strength |-> 3]
    ELSE IF pullback_strength(price, ma_25, ma_75, bb_minus1, Val(rsi)) = 2
    THEN [text |-> "moderate_pullback", icon |-> "orange", strength |-> 2]
    ELSE IF pullback_strength(price, ma_25, ma_75, bb_minus1, Val(rsi)) = 1
    THEN [text |-> "mild_pullback", icon |-> "yellow", strength |-> 1]
    ELSE IF is_high_price_zone(price, ma_25, ma_50, bb_plus1, rsi, None, None, high_52w) <= 40
    THEN [text |-> "high_zone_alert", icon |-> "fire", strength |-> 0]
    ELSE [text |-> "no_signal", icon |-> "green", strength |-> 0]

\* the unclamped, unrounded t of calc_timing_score, in thousandths
timing_raw(price, rsi, bb_plus1, bb_plus2, bb_minus1, bb_minus2, ma_25, ma_50, ma_75, slope_25, low_52w, high_52w) ==
    50000
    + (IF rsi # None THEN (5000 - Val(rsi)) * 6 ELSE 0)
    + (IF price <= bb_minus2 THEN 20000
       ELSE IF price <= bb_minus1 THEN 10000
       ELSE IF price >= bb_plus2 THEN -20000
       ELSE IF price >= bb_plus1 THEN -10000
       ELSE 0)
    + (IF Truthy(low_52w) /\ Truthy(high_52w) /\ Val(high_52w) > Val(low_52w)
       THEN 20000 - RoundDiv(40000 * (price - Val(low_52w)), Val(high_52w) - Val(low_52w))
       ELSE 0)
    + 5000 * ((IF price < ma_25 THEN 1 ELSE 0) + (IF price < ma_50 THEN 1 ELSE 0)
              + (IF price < ma_75 THEN 1 ELSE 0))
    + (IF slope_25 <= -100 THEN -15000
       ELSE IF slope_25 < 0 THEN -5000
       ELSE IF slope_25 >= 100 THEN 5000
       ELSE 0)

\* float(max(0, min(100, round(t, 1)))), t in thousandths, result in hundredths
ClampRound1(t) == Max2(0, Min2(10000, 10 * RoundHalfEven(t, 100)))

calc_timing_score(price, rsi, bb_plus1, bb_plus2, bb_minus1, bb_minus2, ma_25, ma_50, ma_75, slope_25, low_52w, high_52w) ==
    ClampRound1(timing_raw(price, rsi, bb_plus1, bb_plus2, bb_minus1, bb_minus2,
                           ma_25, ma_50, ma_75, slope_25, low_52w, high_52w))

\* mutant of timing_label_from_score: the alert is tested before the downtrend
timing_label_alert_first(t_score, is_downtrend, high_price_alert) ==
    IF t_score <= 3000
    THEN IF high_price_alert THEN "high_price_zone"
         ELSE IF is_downtrend THEN "falling_knife"
         ELSE "timing_worse"
    ELSE IF t_score <= 5000 THEN "no_signal_wait"
    ELSE IF t_score <= 8000 THEN "moderate_pullback"
    ELSE "bargain"

timing_label_from_score(t_score, is_downtrend, high_price_alert) ==
    IF t_score <= 3000
    THEN IF is_downtrend THEN "falling_knife"
         ELSE IF high_price_alert THEN "high_price_zone"
         ELSE "timing_worse"
    ELSE IF t_score <= 5000 THEN "no_signal_wait"
    ELSE IF t_score <= 8000 THEN "moderate_pullback"
    ELSE "bargain"

\* the four-step comment ladder indexed by the number of true conditions:
\* "pass" miokuri, "cautious" shinchou ni, "consider" kai kentou, "attractive" miryokuteki
comment_ladder == << "pass", "cautious", "consider", "attractive" >>

CountTrue(conds) == Cardinality({k \in 1..Len(conds) : conds[k]})

\* the high-price alert of compute_t_metrics
high_price_alert_of(price, bb_plus1, high_52w, rsi) ==
    \/ price >= bb_plus1
    \/ (NotNoneOrZero(high_52w) /\ price * 100 >= Val(high_52w) * 98)
    \/ (rsi # None /\ Val(rsi) >= 7000)

\* the T score compute_t_metrics reports
t_score_of(price, rsi, bb_plus1, bb_plus2, bb_minus1, bb_minus2, ma_25, ma_50, ma_75, slope_25, low_52w, high_52w) ==
    calc_timing_score(price, rsi, bb_plus1, bb_plus2, bb_minus1, bb_minus2,
                      ma_25, ma_50, ma_75, slope_25, low_52w, high_52w)

\* mutant of t_mode_of: ties count as trend
t_mode_non_strict(ma_25, ma_50, ma_75) ==
    IF ma_25 >= ma_50 /\ ma_50 >= ma_75 THEN "trend" ELSE "contrarian"

\* "if ma_25 > ma_50 > ma_75: t_mode = 'trend' else: t_mode = 'contrarian'"
t_mode_of(ma_25, ma_50, ma_75) ==
    IF ma_25 > ma_50 /\ ma_50 > ma_75 THEN "trend" ELSE "contrarian"

\* the exception compute_t_metrics raises, "none" when it returns
compute_t_metrics_raises(price, ma_25, ma_50, ma_75, rsi, bb_plus1, bb_plus2, bb_minus1, bb_minus2, slope_25, low_52w, high_52w, per, pbr) ==
    IF ~(ma_75 > ma_50 /\ ma_50 > ma_25) /\ is_flat_ma_raises(ma_25, ma_50, ma_75)
    THEN "ZeroDivisionError"
    ELSE "none"

compute_t_metrics(price, ma_25, ma_50, ma_75, rsi, bb_plus1, bb_plus2, bb_minus1, bb_minus2, slope_25, low_52w, high_52w, per, pbr) ==
    LET slope_ok == slope_25 < 0
        is_flat_or_gentle_up == (Abs(slope_25) <= 30) /\ (slope_25 >= 0)
        bb == judge_bb_signal(price, bb_plus1, bb_plus2, bb_minus1, bb_minus2)
        sig == judge_signal(price, ma_25, ma_50, ma_75, bb_minus1, bb_plus1, bb_minus2,
                            rsi, high_52w, low_52w)
        high_price_alert == high_price_alert_of(price, bb_plus1, high_52w, rsi)
        highprice_score == is_high_price_zone(price, ma_25, ma_50, bb_plus1, rsi, per, pbr, high_52w)
        low_score == is_low_price_zone(price, ma_25, ma_50, bb_minus1, bb_minus2, rsi, per, pbr, low_52w)
        trend_conditions == << ma_75 < ma_50 /\ ma_50 < ma_25,
                               is_flat_or_gentle_up,
                               highprice_score >= 60 >>
        contrarian_conditions == << (ma_75 > ma_50 /\ ma_50 > ma_25)
                                        \/ is_flat_ma(ma_25, ma_50, ma_75, 3),
                                    slope_ok,
                                    low_score >= 60 >>
        t_score == t_score_of(price, rsi, bb_plus1, bb_plus2, bb_minus1, bb_minus2,
                              ma_25, ma_50, ma_75, slope_25, low_52w, high_52w)
        t_mode == t_mode_of(ma_25, ma_50, ma_75)
        is_downtrend == ma_75 > ma_50 /\ ma_50 > ma_25 /\ slope_25 < 0
    IN  [ t_score |-> t_score,
          t_mode |-> t_mode,
          timing_label |-> timing_label_from_score(t_score, is_downtrend, high_price_alert),
          high_price_alert |-> high_price_alert,
          bb_text |-> bb.text,
          bb_icon |-> bb.icon,
          bb_strength |-> bb.strength,
          signal_text |-> sig.text,
          signal_icon |-> sig.icon,
          signal_strength |-> sig.strength,
          highprice_score |-> highprice_score,
          low_score |-> low_score,
          trend_conditions |-> trend_conditions,
          trend_comment |-> comment_ladder[CountTrue(trend_conditions) + 1],
          contrarian_conditions |-> contrarian_conditions,
          contr_comment |-> comment_ladder[CountTrue(contrarian_conditions) + 1],
          slope_25 |-> slope_25,
          slope_ok |-> slope_ok,
          is_flat_or_gentle_up |-> is_flat_or_gentle_up ]

----------------------------------------------------------------------------
(* app/modules/indicators.py: Q and V scores.  Inputs are Optional          *)
(* hundredths (percent for roe, roa, equity_ratio, dividend_yield; a plain  *)
(* ratio for per, pbr); results are hundredths of a point.                  *)

\* the per-metric scores of _score_quality, in thirds of a hundredth so that
\* roa / 15 * 100 and equity_ratio / 60 * 100 stay exact
quality_scores(roe, roa, equity_ratio) ==
    (IF roe # None THEN << _clamp(12 * Val(roe), 0, 30000) >> ELSE << >>)
    \o (IF roa # None THEN << _clamp(20 * Val(roa), 0, 30000) >> ELSE << >>)
    \o (IF equity_ratio # None THEN << _clamp(5 * Val(equity_ratio), 0, 30000) >> ELSE << >>)

RECURSIVE SumSeq(_)
SumSeq(s) == IF s = << >> THEN 0 ELSE Head(s) + SumSeq(Tail(s))

_score_quality(roe, roa, equity_ratio) ==
    LET scores == quality_scores(roe, roa, equity_ratio)
    IN  IF scores = << >> THEN 5000
        ELSE 10 * RoundHalfEven(SumSeq(scores), 30 * Len(scores))

\* the per-metric scores of _score_valuation, in hundredths
valuation_scores(per, pbr, dividend_yield) ==
    (IF per # None /\ Val(per) > 0
     THEN << 10000 - _clamp((Val(per) - 1000) * 5, 0, 10000) >> ELSE << >>)
    \o (IF pbr # None /\ Val(pbr) > 0
        THEN << 10000 - _clamp((Val(pbr) - 100) * 25, 0, 10000) >> ELSE << >>)
    \o (IF dividend_yield # None /\ Val(dividend_yield) > 0
        THEN << _clamp(Val(dividend_yield) * 20, 0, 10000) >> ELSE << >>)

\* mutant of _score_valuation: no neutral default, 0 as in valuation.py
_score_valuation_no_neutral(per, pbr, dividend_yield) ==
    LET scores == valuation_scores(per, pbr, dividend_yield)
    IN  IF scores = << >> THEN 0
        ELSE 10 * RoundHalfEven(SumSeq(scores), 10 * Len(scores))

_score_valuation(per, pbr, dividend_yield) ==
    LET scores == valuation_scores(per, pbr, dividend_yield)
    IN  IF scores = << >> THEN 5000
        ELSE 10 * RoundHalfEven(SumSeq(scores), 10 * Len(scores))

\* round((q_score + v_score + t_score) / 3.0, 1)
qvt_of(q_score, v_score, t_score) == 10 * RoundHalfEven(q_score + v_score + t_score, 30)

----------------------------------------------------------------------------
(* app/modules/indicators.py: compute_indicators *)

\* mutant of per_of: the guard tests None only
per_of_none_only(price, eps) == IF eps # None THEN PyDiv(price, eps, 100) ELSE None

\* per = price / eps when eps not in (None, 0); likewise pbr
per_of(price, eps) == IF NotNoneOrZero(eps) THEN PyDiv(price, eps, 100) ELSE None

pbr_of(price, bps) == IF NotNoneOrZero(bps) THEN PyDiv(price, bps, 100) ELSE None

per_fwd_calc_of(price, per_fwd, eps_fwd) ==
    IF NotNoneOrZero(per_fwd) THEN per_fwd
    ELSE IF NotNoneOrZero(eps_fwd) THEN PyDiv(price, eps_fwd, 100)
    ELSE None

\* mutant of compute_indicators_rows: the frame object keeps only the valid rows
compute_indicators_rows_dropped(close) ==
    LET valid == df_valid_rows(Len(close), NullRows(close))
    IN  SelectSeq([i \in 1..Len(close) |-> IF i \in valid THEN close[i] ELSE << 0, 0 >>],
                  LAMBDA x : x # << 0, 0 >>)

\* the rows of the frame object after compute_indicators worked on it:
\* df.dropna(subset=...) returns a new frame, the object itself keeps its rows
compute_indicators_rows(close) == close

\* the columns of the frame object after compute_indicators worked on it
compute_indicators_columns(columns) ==
    columns \cup calc_moving_averages_cols \cup calc_bollinger_bands_cols \cup calc_rsi_cols

\* mutant of insufficient_data: only the empty frame is rejected
insufficient_data_empty_only(valid) == valid = {}

\* "if df_valid.empty or len(df_valid) < 5"
insufficient_data(valid) == valid = {} \/ Cardinality(valid) < 5

FirstError(xs) ==
    IF \E k \in 1..Len(xs) : IsError(xs[k])
    THEN LET k == CHOOSE k \in 1..Len(xs) : IsError(xs[k]) /\ \A j \in 1..(k - 1) : ~IsError(xs[j])
         IN  IF xs[k] = ZeroDivisionError THEN "ZeroDivisionError" ELSE "TypeError"
    ELSE "none"

\* the values read from "last = df_valid.iloc[-1]" and from the slope helpers
snapshot(close, nulls, valid) ==
    LET i == ILocFromEnd(valid, Len(close), 1)
        ma_20 == RollingMean(close, i, 20)
        std_20 == RollingStd(close, i, 20)
    IN  [ price |-> Val(close[i]),
          ma_25 |-> RollingMean(close, i, 25),
          ma_50 |-> RollingMean(close, i, 50),
          ma_75 |-> RollingMean(close, i, 75),
          rsi |-> calc_rsi(close, i, 14),
          bb_plus1 |-> Band(ma_20, std_20, 1),
          bb_plus2 |-> Band(ma_20, std_20, 2),
          bb_minus1 |-> Band(ma_20, std_20, -1),
          bb_minus2 |-> Band(ma_20, std_20, -2),
          slope_25 |-> calc_slope(close, nulls, 25, 4),
          slope_50 |-> calc_slope(close, nulls, 50, 4),
          slope_75 |-> calc_slope(close, nulls, 75, 4),
          arrow_25 |-> slope_arrow(close, nulls, 25),
          arrow_50 |-> slope_arrow(close, nulls, 50),
          arrow_75 |-> slope_arrow(close, nulls, 75) ]

\* the part of compute_indicators after the data check: the exception it
\* raises ("none" when it returns) and the dict it returns (the keys "df" and
\* "df_valid" of the source hold the caller's frame object and its valid rows)
score_snapshot(valid, s, a) ==
    LET per == per_of(s.price, a.eps)
        pbr == pbr_of(s.price, a.bps)
        per_fwd_calc == per_fwd_calc_of(s.price, a.per_fwd, a.eps_fwd)
        early == FirstError(<< per, pbr, per_fwd_calc >>)
        late == compute_t_metrics_raises(s.price, s.ma_25, s.ma_50, s.ma_75, Some(s.rsi),
                    s.bb_plus1, s.bb_plus2, s.bb_minus1, s.bb_minus2, s.slope_25,
                    a.low_52w, a.high_52w, per, pbr)
        t_metrics == compute_t_metrics(s.price, s.ma_25, s.ma_50, s.ma_75, Some(s.rsi),
                         s.bb_plus1, s.bb_plus2, s.bb_minus1, s.bb_minus2, s.slope_25,
                         a.low_52w, a.high_52w, per, pbr)
        t_score == t_metrics.t_score
        q_score == _score_quality(a.roe, a.roa, a.equity_ratio)
        v_score == _score_valuation(per, pbr, a.dividend_yield)
    IN  IF early # "none" THEN [raised |-> early, tech |-> None]
        ELSE IF late # "none" THEN [raised |-> late, tech |-> None]
        ELSE [ raised |-> "none",
               tech |->
                 [ df_valid |-> valid,
                   close |-> s.price,
                   ma_25 |-> s.ma_25, ma_50 |-> s.ma_50, ma_75 |-> s.ma_75,
                   slope_50 |-> s.slope_50, slope_75 |-> s.slope_75,
                   arrow_25 |-> s.arrow_25, arrow_50 |-> s.arrow_50, arrow_75 |-> s.arrow_75,
                   bb_plus1 |-> s.bb_plus1, bb_plus2 |-> s.bb_plus2,
                   bb_minus1 |-> s.bb_minus1, bb_minus2 |-> s.bb_minus2,
                   rsi |-> s.rsi,
                   high_52w |-> a.high_52w, low_52w |-> a.low_52w,
                   eps |-> a.eps, bps |-> a.bps, eps_fwd |-> a.eps_fwd,
                   per |-> per, pbr |-> pbr, per_fwd |-> per_fwd_calc,
                   roe |-> a.roe, roa |-> a.roa, equity_ratio |-> a.equity_ratio,
                   dividend_yield |-> a.dividend_yield,
                   q_score |-> q_score, v_score |-> v_score,
                   qvt_score |-> qvt_of(q_score, v_score, t_score) ]
                 @@ t_metrics ]

\* compute_indicators(df, close_col, high_52w, ..., dividend_yield) on the
\* close column of df and the scalars a: what it raises and what it returns
compute_indicators(close, a) ==
    LET nulls == NullRows(close)
        valid == df_valid_rows(Len(close), nulls)
    IN  IF insufficient_data(valid)
        THEN [raised |-> "ValueError", tech |-> None]
        ELSE score_snapshot(valid, snapshot(close, nulls, valid), a)

----------------------------------------------------------------------------
(* Inputs: the price frames and scalars the caller hands to                 *)
(* compute_indicators.                                                      *)

\* bound: the longest frame has 79 + MaxExtraRows rows
MaxExtraRows == 5

\* a close column of n rows: start b, step d1 per row, step d2 over the last
\* 5 rows, a zigzag of amplitude amp, and row nullAt missing (0: none)
MkClose(n, b, d1, d2, amp, nullAt) ==
    [i \in 1..n |->
        IF i = nullAt THEN None
        ELSE Some(b + d1 * Min2(i, n - 5) + d2 * Max2(0, i - (n - 5)) + amp * (i % 2))]

Shape(n, d1, d2, amp, nullAt) == [n |-> n, d1 |-> d1, d2 |-> d2, amp |-> amp, nullAt |-> nullAt]

CloseOf(sh) == MkClose(sh.n, 10000, sh.d1, sh.d2, sh.amp, sh.nullAt)

Lengths == {10, 78, 79, 79 + MaxExtraRows}

\* the frames the scalars are varied most widely on
PrimaryShapes ==
    {Shape(79 + MaxExtraRows, d1, d2, 30, 0) : d1 \in {-40, 40}, d2 \in {-150, 150}}
    \cup {Shape(79 + MaxExtraRows, 40, -55, 0, 0)}

\* the frames every combination of None and 0 is presented with: a rising
\* one (trend mode) and a falling one (contrarian mode)
NoneOrZeroShapes ==
    {Shape(79 + MaxExtraRows, 40, 150, 30, 0), Shape(79 + MaxExtraRows, -40, -150, 30, 0)}

AllShapes ==
    {Shape(n, d1, d2, amp, nullAt) :
        n \in Lengths, d1 \in {-40, 0, 40}, d2 \in {-150, 0, 150}, amp \in {0, 30},
        nullAt \in {0, 3, 77}}
    \cup PrimaryShapes

NonNullCloses(close) == {Val(close[i]) : i \in {j \in 1..Len(close) : close[j] # None}}

MaxOf(S) == CHOOSE x \in S : \A y \in S : y <= x

MinOf(S) == CHOOSE x \in S : \A y \in S : x <= y

\* 52-week high and low as the caller supplies them: missing, 0, the extreme
\* of the frame's closes (data_fetch.py), or a value beyond it
High52wChoices(close) == {None, Some(0), Some(MaxOf(NonNullCloses(close))),
                          Some(MaxOf(NonNullCloses(close)) + 3000)}

Low52wChoices(close) == {None, Some(0), Some(MinOf(NonNullCloses(close)))}

Fund(eps, bps, eps_fwd, per_fwd, roe, roa, equity_ratio, dividend_yield) ==
    [eps |-> eps, bps |-> bps, eps_fwd |-> eps_fwd, per_fwd |-> per_fwd,
     roe |-> roe, roa |-> roa, equity_ratio |-> equity_ratio,
     dividend_yield |-> dividend_yield]

\* every combination of None and 0 for the eight fundamentals
NoneOrZeroFunds ==
    [eps : {None, Some(0)}, bps : {None, Some(0)}, eps_fwd : {None, Some(0)},
     per_fwd : {None, Some(0)}, roe : {None, Some(0)}, roa : {None, Some(0)},
     equity_ratio : {None, Some(0)}, dividend_yield : {None, Some(0)}]

\* fundamentals with values: typical, rich, loss-making, partially missing
ValueFunds ==
    { Fund(Some(800), Some(9000), Some(900), None, Some(1200), Some(500), Some(4500), Some(250)),
      Fund(Some(2000), Some(20000), None, Some(1500), Some(3000), Some(2000), Some(8000), Some(700)),
      Fund(Some(-300), Some(2000), Some(0), Some(0), Some(-500), Some(-200), Some(1000), Some(0)),
      Fund(Some(100), Some(1000), None, None, None, Some(900), None, None),
      Fund(None, None, Some(500), Some(0), Some(2400), None, Some(6000), Some(-100)),
      Fund(Some(0), Some(0), None, None, None, None, None, Some(300)) }

FewFunds == { Fund(None, None, None, None, None, None, None, None),
              Fund(Some(800), Some(9000), Some(900), None, Some(1200), Some(500), Some(4500), Some(250)) }

WithRange(f, hi, lo) == [high_52w |-> hi, low_52w |-> lo] @@ f

\* the scalars a caller can present with a frame of shape sh
ScalarsFor(sh, close) ==
    {WithRange(f, hi, lo) :
        f \in FewFunds, hi \in {None, Some(12000)}, lo \in {None, Some(8000)}}
    \cup (IF sh \in PrimaryShapes
          THEN {WithRange(f, hi, lo) :
                    f \in ValueFunds, hi \in High52wChoices(close), lo \in Low52wChoices(close)}
          ELSE {})
    \cup (IF sh \in NoneOrZeroShapes
          THEN {WithRange(f, hi, lo) :
                    f \in NoneOrZeroFunds, hi \in {None, Some(0)}, lo \in {None, Some(0)}}
          ELSE {})

----------------------------------------------------------------------------
(* app/modules/q_logic.py, modules/valuation.py and the T scorers of       *)
(* indicators.py (the definitions bound at call time, lines 404-458)        *)

roe_points(roe) ==
    IF roe <= 0 THEN 0
    ELSE IF roe < 500 THEN 10
    ELSE IF roe < 1000 THEN 20
    ELSE IF roe < 1500 THEN 30
    ELSE IF roe < 2000 THEN 40
    ELSE IF roe < 2500 THEN 45
    ELSE 50

roa_points(roa) ==
    IF roa <= 0 THEN 0
    ELSE IF roa < 200 THEN 5
    ELSE IF roa < 400 THEN 10
    ELSE IF roa < 600 THEN 15
    ELSE IF roa < 800 THEN 20
    ELSE 25

equity_points(equity_ratio) ==
    IF equity_ratio < 2000 THEN 0
    ELSE IF equity_ratio < 3000 THEN 3
    ELSE IF equity_ratio < 4000 THEN 6
    ELSE IF equity_ratio < 5000 THEN 10
    ELSE IF equity_ratio < 6000 THEN 15
    ELSE 20

\* max(0.0, min(100.0, raw / max_raw * 100.0)), in hundredths
normalise(raw, max_raw) == Max2(0, Min2(10000, RoundDiv(raw * 10000, max_raw)))

\* max_raw = 50 + 25 + 20
quality_max_raw(roe, roa, equity_ratio) == 50 + 25 + 20

score_quality(roe, roa, equity_ratio) ==
    LET raw == (IF roe # None THEN roe_points(Val(roe)) ELSE 0)
               + (IF roa # None THEN roa_points(Val(roa)) ELSE 0)
               + (IF equity_ratio # None THEN equity_points(Val(equity_ratio)) ELSE 0)
    IN  normalise(raw, quality_max_raw(roe, roa, equity_ratio))

per_points(per) ==
    IF per < 800 THEN 30
    ELSE IF per < 1200 THEN 26
    ELSE IF per < 2000 THEN 20
    ELSE IF per < 3000 THEN 10
    ELSE IF per < 4000 THEN 5
    ELSE 0

pbr_points(pbr) ==
    IF pbr < 80 THEN 25
    ELSE IF pbr < 120 THEN 20
    ELSE IF pbr < 200 THEN 10
    ELSE IF pbr < 300 THEN 5
    ELSE 0

yield_points(dividend_yield) ==
    IF dividend_yield >= 500 THEN 20
    ELSE IF dividend_yield >= 300 THEN 16
    ELSE IF dividend_yield >= 200 THEN 10
    ELSE IF dividend_yield >= 100 THEN 5
    ELSE 0

\* max_raw = 30 + 25 + 20
valuation_max_raw(per, pbr, dividend_yield) == 30 + 25 + 20

score_valuation(per, pbr, dividend_yield) ==
    LET raw == (IF per # None /\ Val(per) > 0 THEN per_points(Val(per)) ELSE 0)
               + (IF pbr # None /\ Val(pbr) > 0 THEN pbr_points(Val(pbr)) ELSE 0)
               + (IF Truthy(dividend_yield) THEN yield_points(Val(dividend_yield)) ELSE 0)
    IN  normalise(raw, valuation_max_raw(per, pbr, dividend_yield))

\* t_score = max(0.0, min(100.0, float(highprice_score))): the zone score
\* (points) taken as the T score (hundredths)
zone_as_t(zone_score) == Max2(0, Min2(10000, 100 * zone_score))

_score_timing_trend(highprice_score, low_score, signal_strength, is_high_price_alert) ==
    LET t0 == zone_as_t(highprice_score)
        t1 == IF signal_strength >= 2 THEN Min2(10000, t0 + 1000)
              ELSE IF signal_strength = 1 THEN Min2(10000, t0 + 500)
              ELSE t0
    IN  IF is_high_price_alert THEN Min2(t1, 3000) ELSE t1

\* mutant of _score_timing_contrarian: the alert caps at 40, as its docstring says
_score_timing_contrarian_cap40(highprice_score, low_score, signal_strength, is_high_price_alert) ==
    LET t0 == zone_as_t(low_score)
        t1 == IF signal_strength = 0 THEN Min2(t0, 4000)
              ELSE IF signal_strength = 1 THEN Min2(t0, 7000)
              ELSE t0
    IN  IF is_high_price_alert THEN Min2(t1, 4000) ELSE t1

_score_timing_contrarian(highprice_score, low_score, signal_strength, is_high_price_alert) ==
    LET t0 == zone_as_t(low_score)
        t1 == IF signal_strength = 0 THEN Min2(t0, 4000)
              ELSE IF signal_strength = 1 THEN Min2(t0, 7000)
              ELSE t0
    IN  IF is_high_price_alert THEN Min2(t1, 3000) ELSE t1

----------------------------------------------------------------------------
(* app/modules/q_correction.py.  round(x, 1) of a float whose exact value   *)
(* lies half-way between two tenths goes to either neighbour, depending on  *)
(* the binary representation of x (round(0.45, 1) is 0.5, round(0.35, 1) is *)
(* 0.3); such a rounding is an outcome set of two values.  _relative_score  *)
(* and apply_q_correction are therefore the sets of values a call can       *)
(* return.                                                                  *)

\* round(num / den, 1) with num / den counted in tenths, den > 0: the tenths
\* it can return
Round1Outcomes(num, den) ==
    LET q == num \div den
        r == num % den
    IN  IF 2 * r < den THEN {q}
        ELSE IF 2 * r > den THEN {q + 1}
        ELSE {q, q + 1}

\* mutant of _relative_score: a missing actual value counts as 0
_relative_score_missing_as_zero(actual, sector, cap) ==
    IF ~NotNoneOrZero(sector) THEN {None}
    ELSE LET a == IF actual = None THEN 0 ELSE Val(actual)
             s == Val(sector)
         IN  IF a = 0 \/ (a < 0) # (s < 0) THEN {Some(0)}
             ELSE IF Abs(a) * 100 >= cap * Abs(s) THEN {Some(10000)}
             ELSE {Some(10 * t) : t \in Round1Outcomes(100000 * Abs(a), cap * Abs(s))}

\* _relative_score(actual, sector, cap): cap in hundredths (1.5 is 150), the
\* result None or a score in hundredths
_relative_score(actual, sector, cap) ==
    IF actual = None \/ ~NotNoneOrZero(sector) THEN {None}
    ELSE LET a == Val(actual)
             s == Val(sector)
         IN  IF a = 0 \/ (a < 0) # (s < 0) THEN {Some(0)}
             ELSE IF Abs(a) * 100 >= cap * Abs(s) THEN {Some(10000)}
             ELSE {Some(10 * t) : t \in Round1Outcomes(100000 * Abs(a), cap * Abs(s))}

\* CORRECTION_ALPHA = 0.5 as the divisor 2, NEUTRAL_REL = 70.0 in hundredths
CORRECTION_ALPHA_DIV == 2

NEUTRAL_REL == 7000

\* mutant of q_corrected_of: the clipped value is not rounded to one decimal
q_corrected_unrounded(base_q, rel_list) ==
    IF rel_list # << >>
    THEN LET n == Len(rel_list)
             num == CORRECTION_ALPHA_DIV * n * base_q + SumSeq(rel_list) - n * NEUTRAL_REL
             den == 100 * CORRECTION_ALPHA_DIV * n
             clipped == Max2(0, Min2(100 * den, num))
         IN  {(100 * clipped) \div den}
    ELSE {base_q}

\* q_corrected for the list of available relative scores (hundredths)
q_corrected_of(base_q, rel_list) ==
    IF rel_list # << >>
    THEN LET n == Len(rel_list)
             \* q_corrected_raw = base_q + 0.5 * (sum / n - 70) over the
             \* common denominator 100 * 2 * n
             num == CORRECTION_ALPHA_DIV * n * base_q + SumSeq(rel_list) - n * NEUTRAL_REL
             den == 100 * CORRECTION_ALPHA_DIV * n
             clipped == Max2(0, Min2(100 * den, num))
         IN  {10 * t : t \in Round1Outcomes(10 * clipped, den)}
    ELSE {base_q}

\* mutant of qvt_corrected_of: the sum is divided by 4
qvt_corrected_by_four(q_corrected, v_score, t_score) ==
    {10 * t : t \in Round1Outcomes(q_corrected + v_score + t_score, 40)}

\* qvt_corrected = round((q_corrected + v_score + t_score) / 3.0, 1)
qvt_corrected_of(q_corrected, v_score, t_score) ==
    {10 * t : t \in Round1Outcomes(q_corrected + v_score + t_score, 30)}

\* mutant of apply_q_correction_tech: the corrected Q is written back
apply_q_correction_tech_overwrite(tech_in, sector_roe, sector_roa) ==
    IF NotNoneOrZero(sector_roe) /\ tech_in.roe # None
    THEN [tech_in EXCEPT !.q_score = Max2(0, Min2(10000, @ - 3500))]
    ELSE tech_in

\* the tech dict after apply_q_correction: the function only reads it
apply_q_correction_tech(tech_in, sector_roe, sector_roa) == tech_in

\* the dicts apply_q_correction(tech, sector_roe, sector_roa) can return
apply_q_correction(tech_in, sector_roe, sector_roa) ==
    LET base_q == tech_in.q_score
    IN  UNION { UNION { UNION {
            { [ q_base |-> base_q,
                q_corrected |-> q_corrected,
                qvt_corrected |-> qvt_corrected,
                roe_rel |-> roe_rel,
                roa_rel |-> roa_rel ] :
                qvt_corrected \in qvt_corrected_of(q_corrected, tech_in.v_score,
                                                   tech_in.t_score) } :
            q_corrected \in q_corrected_of(base_q,
                                [k \in 1..Len(SelectSeq(<< roe_rel, roa_rel >>, LAMBDA x : x # None))
                                    |-> Val(SelectSeq(<< roe_rel, roa_rel >>,
                                                      LAMBDA x : x # None)[k])]) } :
            roa_rel \in _relative_score(tech_in.roa, sector_roa, 150) } :
            roe_rel \in _relative_score(tech_in.roe, sector_roe, 150) }

----------------------------------------------------------------------------
(* Direct calls of the scoring functions *)

RoeValues == {None} \cup {Some(v) : v \in {-100, 0, 300, 700, 1200, 1700, 2200, 2500, 3000}}

RoaValues == {None} \cup {Some(v) : v \in {-100, 0, 100, 300, 500, 700, 800}}

EquityValues == {None} \cup {Some(v) : v \in {1000, 2000, 2500, 3500, 4500, 5500, 6000}}

PerValues == {None} \cup {Some(v) : v \in {-500, 0, 700, 800, 1100, 1900, 2900, 3900, 4000}}

PbrValues == {None} \cup {Some(v) : v \in {0, 70, 80, 110, 190, 290, 300}}

YieldValues == {None} \cup {Some(v) : v \in {-100, 0, 50, 100, 200, 300, 500}}

\* the sums is_high_price_zone and is_low_price_zone can return
HighZoneScores == {0, 15, 20, 35, 40, 55, 70}

LowZoneScores == {0, 15, 35, 50, 70, 85}

\* (ma_25, ma_50, ma_75)
MATriples == { << 11000, 10500, 10000 >>, << 9500, 10000, 10500 >>,
               << 10000, 10000, 10000 >>, << 9500, 9000, 8500 >>,
               << 10500, 10200, 9800 >>, << 11200, 11500, 12000 >>,
               << 10500, 10500, 10000 >> }

\* (bb_minus2, bb_minus1, bb_plus1, bb_plus2) around the price 10000
BandSets == { << 8500, 9000, 10500, 11000 >>, << 9000, 9500, 10000, 10500 >>,
              << 9000, 9500, 9800, 10000 >>, << 10000, 10200, 10800, 11000 >>,
              << 9800, 10000, 10600, 10900 >>, << 9900, 10100, 10500, 10700 >> }

RsiValues == {None} \cup {Some(v) : v \in {2500, 3600, 3900, 5500, 6900, 7000, 7500}}

SlopeValues == {-150, -50, 0, 20, 150}

\* the keys of the tech dict apply_q_correction reads, for direct calls
QScoreValues == {0, 1000, 3000, 6000, 9000, 10000}

TechDicts ==
    [q_score : QScoreValues, v_score : {5000, 8330}, t_score : {0, 5670},
     roe : {None} \cup {Some(v) : v \in {-500, 0, 223, 1000, 1500, 2500}},
     roa : {None} \cup {Some(v) : v \in {0, 180, 400, 900}}]

SectorRoeValues == {None} \cup {Some(v) : v \in {0, 1000}}

SectorRoaValues == {None} \cup {Some(v) : v \in {0, 400}}

NoCall == [fn |-> "none"]

CallScoreQuality ==
    /\ call = NoCall
    /\ \E roe \in RoeValues, roa \in RoaValues, equity_ratio \in EquityValues :
        call' = [fn |-> "score_quality",
                 roe |-> roe, roa |-> roa, equity_ratio |-> equity_ratio,
                 ret |-> score_quality(roe, roa, equity_ratio)]
    /\ UNCHANGED << df, base, tech, raised, pc, ui, session_state >>

CallScoreValuation ==
    /\ call = NoCall
    /\ \E per \in PerValues, pbr \in PbrValues, dividend_yield \in YieldValues :
        call' = [fn |-> "score_valuation",
                 per |-> per, pbr |-> pbr, dividend_yield |-> dividend_yield,
                 ret |-> score_valuation(per, pbr, dividend_yield)]
    /\ UNCHANGED << df, base, tech, raised, pc, ui, session_state >>

CallScoreTimingTrend ==
    /\ call = NoCall
    /\ \E hp \in HighZoneScores, low \in LowZoneScores, strength \in 0..3, alert \in BOOLEAN :
        call' = [fn |-> "_score_timing_trend",
                 highprice_score |-> hp, low_score |-> low,
                 signal_strength |-> strength, is_high_price_alert |-> alert,
                 ret |-> _score_timing_trend(hp, low, strength, alert)]
    /\ UNCHANGED << df, base, tech, raised, pc, ui, session_state >>

CallScoreTimingContrarian ==
    /\ call = NoCall
    /\ \E hp \in HighZoneScores, low \in LowZoneScores, strength \in 0..3, alert \in BOOLEAN :
        call' = [fn |-> "_score_timing_contrarian",
                 highprice_score |-> hp, low_score |-> low,
                 signal_strength |-> strength, is_high_price_alert |-> alert,
                 ret |-> _score_timing_contrarian(hp, low, strength, alert)]
    /\ UNCHANGED << df, base, tech, raised, pc, ui, session_state >>

CallTimingLabel ==
    /\ call = NoCall
    /\ \E t_score \in {10 * k : k \in 0..1000}, is_downtrend \in BOOLEAN, alert \in BOOLEAN :
        call' = [fn |-> "timing_label_from_score",
                 t_score |-> t_score, is_downtrend |-> is_downtrend,
                 high_price_alert |-> alert,
                 ret |-> timing_label_from_score(t_score, is_downtrend, alert)]
    /\ UNCHANGED << df, base, tech, raised, pc, ui, session_state >>

CallComputeTMetrics ==
    /\ call = NoCall
    /\ \E ma \in MATriples, bb \in BandSets, rsi \in RsiValues, slope_25 \in SlopeValues,
          low_52w \in {None, Some(0), Some(8000), Some(9800)},
          high_52w \in {None, Some(0), Some(10100), Some(10600), Some(12000)} :
        call' = [fn |-> "compute_t_metrics",
                 price |-> 10000, ma_25 |-> ma[1], ma_50 |-> ma[2], ma_75 |-> ma[3],
                 rsi |-> rsi, bb_minus2 |-> bb[1], bb_minus1 |-> bb[2],
                 bb_plus1 |-> bb[3], bb_plus2 |-> bb[4], slope_25 |-> slope_25,
                 low_52w |-> low_52w, high_52w |-> high_52w,
                 raised |-> compute_t_metrics_raises(10000, ma[1], ma[2], ma[3], rsi,
                                bb[3], bb[4], bb[2], bb[1], slope_25, low_52w, high_52w,
                                None, None),
                 ret |-> compute_t_metrics(10000, ma[1], ma[2], ma[3], rsi,
                             bb[3], bb[4], bb[2], bb[1], slope_25, low_52w, high_52w,
                             None, None)]
    /\ UNCHANGED << df, base, tech, raised, pc, ui, session_state >>

\* prices around the bands of BandSets, and the bands of a flat window
\* (20STD = 0: the four bands coincide)
BBPrices == {8500, 9000, 9500, 9700, 10000, 10500, 11000, 11500}

FlatBands == { << 10000, 10000, 10000, 10000 >> }

CallJudgeBBSignal ==
    /\ call = NoCall
    /\ \E price \in BBPrices, bb \in BandSets \cup FlatBands :
        call' = [fn |-> "judge_bb_signal",
                 price |-> price, bb_minus2 |-> bb[1], bb_minus1 |-> bb[2],
                 bb_plus1 |-> bb[3], bb_plus2 |-> bb[4],
                 ret |-> judge_bb_signal(price, bb[3], bb[4], bb[2], bb[1])]
    /\ UNCHANGED << df, base, tech, raised, pc, ui, session_state >>

CallApplyQCorrection ==
    /\ call = NoCall
    /\ \E tech_in \in TechDicts, sector_roe \in SectorRoeValues, sector_roa \in SectorRoaValues :
        \E result \in apply_q_correction(tech_in, sector_roe, sector_roa) :
            call' = [fn |-> "apply_q_correction",
                     tech |-> tech_in, sector_roe |-> sector_roe, sector_roa |-> sector_roa,
                     tech_after |-> apply_q_correction_tech(tech_in, sector_roe, sector_roa),
                     ret |-> result]
    /\ UNCHANGED << df, base, tech, raised, pc, ui, session_state >>

\* nothing rendered yet
NoUI == [has_key |-> FALSE, ticker |-> "", fetch |-> "none", screen |-> << >>,
         qvt_view |-> None]

Init ==
    /\ df = [close |-> << >>, columns |-> {}]
    /\ base = None
    /\ tech = None
    /\ raised = "none"
    /\ pc = "input"
    /\ call = NoCall
    /\ ui = NoUI
    /\ session_state = None

\* the caller obtains a price frame and the scalars (main.py: base = get_price_and_meta)
Fetch ==
    /\ pc = "input"
    /\ \E sh \in AllShapes :
        LET close == CloseOf(sh)
        IN  \E a \in ScalarsFor(sh, close) :
                /\ df' = [close |-> close, columns |-> {"Close"}]
                /\ base' = a
    /\ pc' = "fetched"
    /\ UNCHANGED << tech, raised, call, ui, session_state >>

\* tech = compute_indicators(df, close_col, ...): the frame object passed in is
\* the one the indicator columns are assigned on, before the data check
ComputeIndicators ==
    /\ pc = "fetched"
    /\ df' = [close |-> compute_indicators_rows(df.close),
              columns |-> compute_indicators_columns(df.columns)]
    /\ LET out == compute_indicators(df.close, base)
       IN  /\ raised' = out.raised
           /\ tech' = out.tech
    /\ pc' = "done"
    /\ UNCHANGED << base, call, ui, session_state >>

\* the caller calls compute_indicators a second time, with the frame object
\* as the first call left it and the same scalars
ComputeIndicatorsAgain ==
    /\ pc = "done"
    /\ df' = [close |-> compute_indicators_rows(df.close),
              columns |-> compute_indicators_columns(df.columns)]
    /\ LET out == compute_indicators(df.close, base)
       IN  call' = [fn |-> "compute_indicators", raised |-> out.raised, ret |-> out.tech]
    /\ pc' = "done2"
    /\ UNCHANGED << base, tech, raised, ui, session_state >>

Next == Fetch \/ ComputeIndicators \/ ComputeIndicatorsAgain

Spec == Init /\ [][Next]_vars

----------------------------------------------------------------------------
(* app/main.py: one run of main(), statement by statement.  pc is the       *)
(* statement about to run: "start", "ticker", "input" (get_price_and_meta), *)
(* "fetched" (compute_indicators), "done" (its except clause and the        *)
(* header), "tab_t", "tab_q", "tab_v", "tab_qvt", "end"; "stopped" after    *)
(* st.stop(), "crashed" after an uncaught exception.                        *)

\* mutant of st_stop: the script carries on with the next statement
st_stop_ignored(next_pc) == next_pc

\* st.stop(): the run ends here, whatever statement came next
st_stop(next_pc) == "stopped"

Show(item) == [ui EXCEPT !.screen = Append(@, item)]

\* what the user can type, and convert_ticker of it: stripped and upper-cased,
\* ".T" appended to a 4 or 5 digit code
UserInputs == {"", "  ", "7203", "8306.T", "aapl"}

convert_ticker(ticker) ==
    CASE ticker = "" -> ""
      [] ticker = "  " -> ""
      [] ticker = "7203" -> "7203.T"
      [] ticker = "8306.T" -> "8306.T"
      [] ticker = "aapl" -> "AAPL"

\* "if 'ALPHA_VANTAGE_API_KEY' not in st.secrets: st.error(...); st.stop()"
MainCheckSecrets ==
    /\ pc = "start"
    /\ \E has_key \in BOOLEAN :
        IF has_key
        THEN /\ ui' = [ui EXCEPT !.has_key = TRUE]
             /\ pc' = "ticker"
        ELSE /\ ui' = Show("error")
             /\ pc' = st_stop("ticker")
    /\ UNCHANGED << df, base, tech, raised, call, session_state >>

\* "ticker = convert_ticker(user_input); if not ticker: st.stop()"
MainInputTicker ==
    /\ pc = "ticker"
    /\ \E user_input \in UserInputs :
        LET ticker == convert_ticker(user_input)
        IN  /\ ui' = [ui EXCEPT !.ticker = ticker]
            /\ pc' = IF ticker = "" THEN st_stop("input") ELSE "input"
    /\ UNCHANGED << df, base, tech, raised, call, session_state >>

\* the frames and fundamentals get_price_and_meta returns in a run of main():
\* a short frame, a rising and a falling one; the 52-week high and low are
\* the extremes of the closes
MainShapes ==
    {Shape(10, 40, 0, 0, 0), Shape(79 + MaxExtraRows, 40, 150, 30, 0),
     Shape(79 + MaxExtraRows, -40, -150, 30, 0)}

MainFunds ==
    { Fund(Some(800), Some(9000), Some(900), None, Some(1200), Some(500), Some(4500), Some(250)),
      Fund(Some(100), Some(1000), None, None, None, Some(900), None, None),
      Fund(None, None, None, None, Some(223), Some(180), None, None) }

\* "try: base = get_price_and_meta(ticker) except ValueError: st.error; st.stop()"
MainFetch ==
    /\ pc = "input"
    /\ \/ /\ ui' = [Show("error") EXCEPT !.fetch = "ValueError"]
          /\ pc' = st_stop("fetched")
          /\ UNCHANGED << df, base >>
       \/ \E sh \in MainShapes, f \in MainFunds :
            LET close == CloseOf(sh)
            IN  /\ df' = [close |-> close, columns |-> {"Close"}]
                /\ base' = WithRange(f, Some(MaxOf(NonNullCloses(close))),
                                     Some(MinOf(NonNullCloses(close))))
                /\ ui' = [ui EXCEPT !.fetch = "ok"]
                /\ pc' = "fetched"
    /\ UNCHANGED << tech, raised, call, session_state >>

\* the except clause around compute_indicators, then render_header_block
MainHeader ==
    /\ pc = "done"
    /\ IF raised = "ValueError"
       THEN /\ ui' = Show("error")
            /\ pc' = st_stop("tab_t")
       ELSE IF raised # "none"
       THEN /\ ui' = ui
            /\ pc' = "crashed"
       ELSE /\ ui' = Show("header")
            /\ pc' = "tab_t"
    /\ UNCHANGED << df, base, tech, raised, call, session_state >>

RenderTTab ==
    /\ pc = "tab_t"
    /\ ui' = Show("tab_t")
    /\ pc' = "tab_q"
    /\ UNCHANGED << df, base, tech, raised, call, session_state >>

\* the values of the two st.number_input widgets (0.0 to 40.0 and 0.0 to
\* 20.0, defaults 10.0 and 4.0)
SectorRoeInputs == {Some(0), Some(1000), Some(1500)}

SectorRoaInputs == {Some(0), Some(400)}

\* render_q_tab(tech): with the button pressed and roe, roa present it calls
\* apply_q_correction and stores q_base, q_corrected, qvt_corrected in
\* st.session_state["q_correction_result"]
RenderQTab ==
    /\ pc = "tab_q"
    /\ pc' = "tab_v"
    /\ \E pressed \in BOOLEAN, sector_roe \in SectorRoeInputs, sector_roa \in SectorRoaInputs :
        IF ~pressed
        THEN /\ ui' = Show("tab_q")
             /\ UNCHANGED << tech, call, session_state >>
        ELSE IF tech.roe = None \/ tech.roa = None
        THEN /\ ui' = [ui EXCEPT !.screen = @ \o << "tab_q", "tab_q_error" >>]
             /\ UNCHANGED << tech, call, session_state >>
        ELSE \E result \in apply_q_correction(tech, sector_roe, sector_roa) :
                /\ call' = [fn |-> "apply_q_correction",
                            tech |-> tech, sector_roe |-> sector_roe,
                            sector_roa |-> sector_roa,
                            tech_after |-> apply_q_correction_tech(tech, sector_roe, sector_roa),
                            ret |-> result]
                /\ tech' = apply_q_correction_tech(tech, sector_roe, sector_roa)
                /\ session_state' = Some([q_base |-> tech.q_score,
                                          q_corrected |-> result.q_corrected,
                                          qvt_corrected |-> result.qvt_corrected])
                /\ ui' = [ui EXCEPT !.screen = @ \o << "tab_q", "tab_q_result" >>]
    /\ UNCHANGED << df, base, raised >>

RenderVTab ==
    /\ pc = "tab_v"
    /\ ui' = Show("tab_v")
    /\ pc' = "tab_qvt"
    /\ UNCHANGED << df, base, tech, raised, call, session_state >>

\* render_qvt_tab(tech): Q and QVT are shown from the stored correction when
\* there is one, from tech otherwise
RenderQVTTab ==
    /\ pc = "tab_qvt"
    /\ ui' = [Show("tab_qvt") EXCEPT !.qvt_view =
                IF session_state # None
                THEN Some([q |-> Val(session_state).q_corrected,
                           qvt |-> Val(session_state).qvt_corrected,
                           corrected |-> TRUE])
                ELSE Some([q |-> tech.q_score, qvt |-> tech.qvt_score,
                           corrected |-> FALSE])]
    /\ pc' = "end"
    /\ UNCHANGED << df, base, tech, raised, call, session_state >>

InitMain ==
    /\ df = [close |-> << >>, columns |-> {}]
    /\ base = None
    /\ tech = None
    /\ raised = "none"
    /\ pc = "start"
    /\ call = NoCall
    /\ ui = NoUI
    /\ session_state = None

NextMain ==
    \/ MainCheckSecrets
    \/ MainInputTicker
    \/ MainFetch
    \/ ComputeIndicators
    \/ MainHeader
    \/ RenderTTab
    \/ RenderQTab
    \/ RenderVTab
    \/ RenderQVTTab

SpecMain == InitMain /\ [][NextMain]_vars

\* Streamlit runs the script again from the top on the next interaction (a new
\* ticker typed, a widget changed, the button pressed): every local of main()
\* starts afresh, st.session_state is the one thing that carries over
Rerun ==
    /\ pc \in {"end", "stopped"}
    /\ df' = [close |-> << >>, columns |-> {}]
    /\ base' = None
    /\ tech' = None
    /\ raised' = "none"
    /\ pc' = "start"
    /\ call' = NoCall
    /\ ui' = NoUI
    /\ UNCHANGED session_state

NextSession == NextMain \/ Rerun

SpecSession == InitMain /\ [][NextSession]_vars

----------------------------------------------------------------------------
(* indicators.py at the repository root.  The module defines                *)
(* _score_timing_trend and _score_timing_contrarian twice; a def statement  *)
(* rebinds the name, so once the module is loaded every call reaches the    *)
(* definition that comes last in the file.                                  *)

\* the definitions of each name in file order: parameters (none has a
\* default) and whether the body returns a 3-tuple or a single float
ScoreTimingDefinitions(name) ==
    CASE name = "_score_timing_trend" ->
           << [params |-> {"highprice_score", "low_score", "signal_strength", "price",
                           "high_52w", "bb_upper1", "per", "pbr"},
               returns_tuple |-> TRUE],
              [params |-> {"highprice_score", "low_score", "signal_strength",
                           "is_high_price_alert"},
               returns_tuple |-> FALSE] >>
      [] name = "_score_timing_contrarian" ->
           << [params |-> {"low_score", "highprice_score"},
               returns_tuple |-> TRUE],
              [params |-> {"highprice_score", "low_score", "signal_strength",
                           "is_high_price_alert"},
               returns_tuple |-> FALSE] >>

\* the definition bound to the name when compute_indicators runs
BoundDefinition(name) ==
    ScoreTimingDefinitions(name)[Len(ScoreTimingDefinitions(name))]

\* the keywords of the two call sites of compute_indicators: the first
\* unpacks three values, the second takes one float
FirstCallKeywords(name) ==
    IF name = "_score_timing_trend"
    THEN {"highprice_score", "low_score", "signal_strength", "price", "high_52w",
          "bb_upper1", "per", "pbr"}
    ELSE {"low_score", "highprice_score"}

SecondCallKeywords(name) ==
    {"highprice_score", "low_score", "signal_strength", "is_high_price_alert"}

\* a keyword call is accepted when every keyword names a parameter and every
\* parameter (all are required) is given
AcceptsCall(definition, keywords) == keywords = definition.params

\* _timing_label_from_score of indicators.py
_timing_label_from_score(t_score) ==
    IF t_score <= 3000 THEN "high zone (caution)"
    ELSE IF t_score <= 5000 THEN "no pullback signal"
    ELSE IF t_score <= 8000 THEN "moderate pullback"
    ELSE "bargain"

\* compute_indicators of indicators.py from the T-score section on, for the
\* values it has derived from a frame with at least 5 fully populated rows.
\* qvt_score = (q_score + v_score + t_score) / 3.0 is kept as the pair
\* (numerator, denominator).
indicators_compute_indicators(ma25, ma50, ma75, highprice_score, low_score, signal_strength, high_price_alert, q_score, v_score) ==
    LET trend == ma75 < ma50 /\ ma50 < ma25
        name  == IF trend THEN "_score_timing_trend" ELSE "_score_timing_contrarian"
        bound == BoundDefinition(name)
    IN  IF ~AcceptsCall(bound, FirstCallKeywords(name))
        THEN [raised |-> "TypeError", ret |-> None]
        ELSE IF ~bound.returns_tuple
        THEN [raised |-> "TypeError", ret |-> None]
        ELSE IF ~AcceptsCall(bound, SecondCallKeywords(name))
        THEN [raised |-> "TypeError", ret |-> None]
        ELSE LET t_score == IF trend
                            THEN _score_timing_trend(highprice_score, low_score,
                                                     signal_strength, high_price_alert)
                            ELSE _score_timing_contrarian(highprice_score, low_score,
                                                          signal_strength, high_price_alert)
             IN  [raised |-> "none",
                  ret |-> Some([t_mode |-> IF trend THEN "trend" ELSE "contrarian",
                                t_score |-> t_score,
                                timing_label |-> _timing_label_from_score(t_score),
                                qvt_score |-> << q_score + v_score + t_score, 3 >>])]

CallIndicatorsComputeIndicators ==
    /\ call = NoCall
    /\ \E ma \in MATriples, hp \in HighZoneScores, low \in LowZoneScores,
          strength \in 0..3, alert \in BOOLEAN :
        LET out == indicators_compute_indicators(ma[1], ma[2], ma[3], hp, low,
                                                 strength, alert, 5000, 5000)
        IN  call' = [fn |-> "indicators.compute_indicators",
                     ma25 |-> ma[1], ma50 |-> ma[2], ma75 |-> ma[3],
                     highprice_score |-> hp, low_score |-> low,
                     signal_strength |-> strength, high_price_alert |-> alert,
                     raised |-> out.raised, ret |-> out.ret]
    /\ UNCHANGED << df, base, tech, raised, pc, ui, session_state >>

\* series.dropna()
RECURSIVE dropna(_)
dropna(series) ==
    IF series = << >> THEN << >>
    ELSE IF Head(series) = None THEN dropna(Tail(series))
    ELSE << Val(Head(series)) >> \o dropna(Tail(series))

\* slope_arrow(series, window) of indicators.py: recent = series.iloc[-window:],
\* diff = recent.iloc[-1] - recent.iloc[0]
slope_arrow_window(series, window) ==
    LET s == dropna(series)
    IN  IF Len(s) < window + 1 THEN "flat"
        ELSE LET diff == s[Len(s)] - s[Len(s) - window + 1]
             IN  IF diff > 0 THEN "up" ELSE IF diff < 0 THEN "down" ELSE "flat"

MaxSeriesLen == 5

SeriesValues == {None, Some(100), Some(200), Some(300)}

ArrowSeries == UNION {[1..n -> SeriesValues] : n \in 0..MaxSeriesLen}

CallSlopeArrow ==
    /\ call = NoCall
    /\ \E series \in ArrowSeries, window \in 1..3 :
        call' = [fn |-> "slope_arrow", series |-> series, window |-> window,
                 ret |-> slope_arrow_window(series, window)]
    /\ UNCHANGED << df, base, tech, raised, pc, ui, session_state >>

\* direct calls of is_flat_ma and calc_slope: moving averages and series
\* values of either sign and 0
FlatMAValues == {-200, -100, 0, 100, 103, 200}

CallIsFlatMa ==
    /\ call = NoCall
    /\ \E ma_25 \in FlatMAValues, ma_50 \in FlatMAValues, ma_75 \in FlatMAValues :
        call' = [fn |-> "is_flat_ma", ma_25 |-> ma_25, ma_50 |-> ma_50, ma_75 |-> ma_75,
                 raised |-> IF is_flat_ma_raises(ma_25, ma_50, ma_75)
                            THEN "ZeroDivisionError" ELSE "none",
                 ret |-> IF is_flat_ma_raises(ma_25, ma_50, ma_75) THEN None
                         ELSE Some(is_flat_ma(ma_25, ma_50, ma_75, 3))]
    /\ UNCHANGED << df, base, tech, raised, pc, ui, session_state >>

SlopeSeriesValues == {None, Some(0), Some(100), Some(200)}

SlopeSeries == UNION {[1..n -> SlopeSeriesValues] : n \in 0..MaxSeriesLen}

\* calc_slope(series, window) on a plain series: the series is its own
\* rolling mean of one row
CallCalcSlope ==
    /\ call = NoCall
    /\ \E series \in SlopeSeries, window \in {2, 4} :
        call' = [fn |-> "calc_slope", series |-> series, window |-> window,
                 ret |-> calc_slope(series, NullRows(series), 1, window)]
    /\ UNCHANGED << df, base, tech, raised, pc, ui, session_state >>

\* direct calls of judge_signal, is_high_price_zone and is_low_price_zone
SignalPrices == {8800, 9400, 10000, 10600, 11500}

CallJudgeSignal ==
    /\ call = NoCall
    /\ \E price \in SignalPrices, ma \in MATriples, bb \in BandSets \cup FlatBands,
          rsi \in RsiValues, high_52w \in {None, Some(0), Some(12000)} :
        call' = [fn |-> "judge_signal",
                 price |-> price, ma_25 |-> ma[1], ma_50 |-> ma[2], ma_75 |-> ma[3],
                 bb_minus2 |-> bb[1], bb_minus1 |-> bb[2], bb_plus1 |-> bb[3],
                 rsi |-> rsi, high_52w |-> high_52w,
                 ret |-> judge_signal(price, ma[1], ma[2], ma[3], bb[2], bb[3], bb[1],
                                      rsi, high_52w, None)]
    /\ UNCHANGED << df, base, tech, raised, pc, ui, session_state >>

CallPriceZones ==
    /\ call = NoCall
    /\ \E price \in SignalPrices, ma \in MATriples, bb \in BandSets,
          rsi \in {None, Some(2500), Some(5500), Some(7000)},
          high_52w \in {None, Some(0), Some(10600), Some(12000)},
          low_52w \in {None, Some(0), Some(8800), Some(9800)} :
        call' = [fn |-> "price_zones",
                 price |-> price, ma_25 |-> ma[1], ma_50 |-> ma[2],
                 bb_minus2 |-> bb[1], bb_minus1 |-> bb[2], bb_plus1 |-> bb[3],
                 rsi |-> rsi, high_52w |-> high_52w, low_52w |-> low_52w,
                 highprice_score |-> is_high_price_zone(price, ma[1], ma[2], bb[3], rsi,
                                                        None, None, high_52w),
                 low_score |-> is_low_price_zone(price, ma[1], ma[2], bb[2], bb[1], rsi,
                                                 None, None, low_52w)]
    /\ UNCHANGED << df, base, tech, raised, pc, ui, session_state >>

NextCalls ==
    \/ CallScoreQuality
    \/ CallScoreValuation
    \/ CallScoreTimingTrend
    \/ CallScoreTimingContrarian
    \/ CallTimingLabel
    \/ CallComputeTMetrics
    \/ CallApplyQCorrection
    \/ CallJudgeBBSignal
    \/ CallIndicatorsComputeIndicators
    \/ CallSlopeArrow
    \/ CallIsFlatMa
    \/ CallCalcSlope
    \/ CallJudgeSignal
    \/ CallPriceZones

SpecCalls == Init /\ [][NextCalls]_vars

----------------------------------------------------------------------------
(* Properties *)

\* compute_indicators returned a dict
Returned == pc = "done" /\ raised = "none"

InScore(x) == 0 <= x /\ x <= 10000

\* The rows on which close, the three averages, the four bands and RSI are
\* all computable, stated on the close column alone: the 75-row window of
\* the longest average contains every other window, so a row qualifies
\* exactly when it and the 74 rows before it are non-null.
FullyPopulatedRows ==
    {i \in 75..Len(df.close) : \A j \in (i - 74)..i : df.close[j] # None}

\* C1: whenever compute_indicators returns a result, the last-row RSI and
\* q_score, v_score, t_score and qvt_score all lie in [0, 100].
C1_ScoresInRange ==
    Returned =>
        /\ InScore(tech.rsi)
        /\ InScore(tech.q_score)
        /\ InScore(tech.v_score)
        /\ InScore(tech.t_score)
        /\ InScore(tech.qvt_score)

\* a returned result whose Q inputs exceed their ceilings (ROE 30 %, ROA 20 %,
\* equity ratio 80 %) and whose T reached the upper bound
C1_Witness ==
    /\ Returned
    /\ tech.roe = Some(3000)
    /\ tech.roa = Some(2000)
    /\ tech.q_score = 10000
    /\ tech.t_score = 10000

\* C2: whenever the result has high_price_alert true, its t_score is at most 30.
C2_AlertCapsT == (Returned /\ tech.high_price_alert) => tech.t_score <= 3000

\* C3: when fewer than 5 rows are fully populated (as for any 10-row frame),
\* compute_indicators raises the insufficient-data ValueError and returns nothing.
C3_InsufficientDataRaises ==
    (pc = "done" /\ (Cardinality(FullyPopulatedRows) < 5 \/ Len(df.close) = 10))
        => (raised = "ValueError" /\ tech = None)

\* a frame with four fully populated rows, one short of the minimum, rejected
C3_Witness ==
    /\ pc = "done"
    /\ Cardinality(FullyPopulatedRows) = 4
    /\ raised = "ValueError"
    /\ tech = None

\* C4: with at least 5 fully populated rows compute_indicators returns a
\* result whatever combination of None and 0 the ten scalars take; the
\* insufficient-data ValueError is the only exception it raises.
C4_OnlyValueError ==
    pc = "done" =>
        /\ raised \in {"none", "ValueError"}
        /\ Cardinality(FullyPopulatedRows) >= 5 => (raised = "none" /\ tech # None)

\* a result returned although every divisor and range scalar is 0
C4_Witness ==
    /\ Returned
    /\ base.eps = Some(0) /\ base.bps = Some(0)
    /\ base.eps_fwd = Some(0) /\ base.per_fwd = Some(0)
    /\ base.high_52w = Some(0) /\ base.low_52w = Some(0)
    /\ base.roe = None /\ base.dividend_yield = Some(0)
    /\ tech.per = None /\ tech.pbr = None /\ tech.per_fwd = None

----------------------------------------------------------------------------
(* Properties of the directly called functions *)

\* the label bands shared by the claim and its amendment
BandLabel(t_score) ==
    CASE t_score > 8000 -> "bargain"
      [] t_score > 5000 /\ t_score <= 8000 -> "moderate_pullback"
      [] t_score > 3000 /\ t_score <= 5000 -> "no_signal_wait"

\* the confirmed downtrend of compute_t_metrics, from the call's arguments
CallDowntrend == call.ma_75 > call.ma_50 /\ call.ma_50 > call.ma_25 /\ call.slope_25 < 0

LowLabel(is_downtrend, high_price_alert) ==
    CASE is_downtrend -> "falling_knife"
      [] ~is_downtrend /\ high_price_alert -> "high_price_zone"
      [] ~is_downtrend /\ ~high_price_alert -> "timing_worse"

Rescaled(zone_score, full) == Max2(0, Min2(10000, RoundDiv(zone_score * 10000, full)))

\* the pullback bonus of trend mode and the pullback caps of contrarian mode
TrendBonus(t, signal_strength) ==
    CASE signal_strength >= 2 -> Min2(10000, t + 1000)
      [] signal_strength = 1 -> Min2(10000, t + 500)
      [] signal_strength = 0 -> t

ContrarianCap(t, signal_strength) ==
    CASE signal_strength = 0 -> Min2(t, 4000)
      [] signal_strength = 1 -> Min2(t, 7000)
      [] signal_strength >= 2 -> t

AlertCap(t, alert) == IF alert /\ t > 3000 THEN 3000 ELSE t

C7_CallerFrameUnchanged == pc = "done" => df.columns = {"Close"}

\* points over the maximum attainable from the supplied items only; 50.0
\* when nothing is supplied
OverPresent(raw, max_present) ==
    IF max_present = 0 THEN 5000 ELSE normalise(raw, max_present)

\* C8: score_quality divides the step-table points by the maximum attainable
\* from the supplied metrics only, and returns 50.0 when none is supplied.
C8_QualityOverPresent ==
    call.fn = "score_quality" =>
        call.ret =
            OverPresent(
                (IF call.roe # None THEN roe_points(Val(call.roe)) ELSE 0)
                + (IF call.roa # None THEN roa_points(Val(call.roa)) ELSE 0)
                + (IF call.equity_ratio # None
                   THEN equity_points(Val(call.equity_ratio)) ELSE 0),
                (IF call.roe # None THEN 50 ELSE 0)
                + (IF call.roa # None THEN 25 ELSE 0)
                + (IF call.equity_ratio # None THEN 20 ELSE 0))

Positive(x) == x # None /\ Val(x) > 0

\* C9: score_valuation counts PER, PBR and yield only when positive, divides
\* the step-table points by the maximum of the present dimensions only, and
\* returns 50.0 when none is present.
C9_ValuationOverPresent ==
    call.fn = "score_valuation" =>
        call.ret =
            OverPresent(
                (IF Positive(call.per) THEN per_points(Val(call.per)) ELSE 0)
                + (IF Positive(call.pbr) THEN pbr_points(Val(call.pbr)) ELSE 0)
                + (IF Positive(call.dividend_yield)
                   THEN yield_points(Val(call.dividend_yield)) ELSE 0),
                (IF Positive(call.per) THEN 30 ELSE 0)
                + (IF Positive(call.pbr) THEN 25 ELSE 0)
                + (IF Positive(call.dividend_yield) THEN 20 ELSE 0))

\* roe, roa, equity_ratio, eps, bps and dividend_yield are all None
NoFundamentals ==
    /\ base.roe = None /\ base.roa = None /\ base.equity_ratio = None
    /\ base.eps = None /\ base.bps = None /\ base.dividend_yield = None

\* C10: when roe, roa, equity_ratio, eps, bps and dividend_yield are all
\* None, compute_indicators returns q_score = 50.0 and v_score = 50.0.
C10_NeutralDefaults ==
    (Returned /\ NoFundamentals) => (tech.q_score = 5000 /\ tech.v_score = 5000)

\* a result for a frame in contrarian mode with no fundamentals at all
C10_Witness ==
    /\ Returned
    /\ NoFundamentals
    /\ tech.t_mode = "contrarian"
    /\ tech.q_score = 5000
    /\ tech.v_score = 5000

----------------------------------------------------------------------------
(* Properties of apply_q_correction *)

IsCorrectionCall == call.fn = "apply_q_correction"

\* a sector value the user supplied
SectorGiven(sector) == sector # None /\ Val(sector) # 0

\* C11: apply_q_correction changes Q by at most 20 points in either direction.
C11_WithinTwentyPoints ==
    IsCorrectionCall => Abs(call.ret.q_corrected - call.ret.q_base) <= 2000

\* C12: apply_q_correction leaves Q as it is whenever ROE, ROA or a sector
\* value is missing.
C12_NoCorrectionWhenAnyMissing ==
    (/\ IsCorrectionCall
     /\ \/ call.tech.roe = None
        \/ call.tech.roa = None
        \/ ~SectorGiven(call.sector_roe)
        \/ ~SectorGiven(call.sector_roa))
    => call.ret.q_corrected = call.ret.q_base

\* C13: when roe and roa are both None, or both sector values are None or 0,
\* apply_q_correction returns q_corrected equal to the base Q.
C13_NoOpWithoutInputs ==
    (/\ IsCorrectionCall
     /\ \/ (call.tech.roe = None /\ call.tech.roa = None)
        \/ (~SectorGiven(call.sector_roe) /\ ~SectorGiven(call.sector_roa)))
    => /\ call.ret.q_corrected = call.tech.q_score
       /\ call.ret.q_base = call.tech.q_score
       /\ call.ret.roe_rel = None
       /\ call.ret.roa_rel = None

\* base Q 60, roe and roa None, sector_roe 10, sector_roa 4: q_corrected 60.0
C13_Witness ==
    /\ IsCorrectionCall
    /\ call.tech.q_score = 6000
    /\ call.tech.roe = None /\ call.tech.roa = None
    /\ call.sector_roe = Some(1000) /\ call.sector_roa = Some(400)
    /\ call.ret.q_corrected = 6000

RECURSIVE GCD(_, _)
GCD(a, b) == IF b = 0 THEN a ELSE GCD(b, a % b)

\* the fraction num / den in lowest terms, den > 0
Frac(num, den) == LET g == GCD(Abs(num), den) IN << num \div g, den \div g >>

FracAdd(x, y) == Frac(x[1] * y[2] + y[1] * x[2], x[2] * y[2])

\* clamp(actual / sector, 0, 1.5) / 1.5 * 100 as an exact fraction of hundredths
ExactRelative(actual, sector) ==
    LET a == Val(actual)
        s == Val(sector)
    IN  IF a = 0 \/ (a < 0) # (s < 0) THEN Frac(0, 1)
        ELSE IF 2 * Abs(a) >= 3 * Abs(s) THEN Frac(10000, 1)
        ELSE Frac(20000 * Abs(a), 3 * Abs(s))

RelativeAvailable(actual, sector) == actual # None /\ SectorGiven(sector)

\* the sum and the number of the available exact relative scores of the call
ExactRelSum ==
    FracAdd(IF RelativeAvailable(call.tech.roe, call.sector_roe)
            THEN ExactRelative(call.tech.roe, call.sector_roe) ELSE Frac(0, 1),
            IF RelativeAvailable(call.tech.roa, call.sector_roa)
            THEN ExactRelative(call.tech.roa, call.sector_roa) ELSE Frac(0, 1))

RelCount ==
    (IF RelativeAvailable(call.tech.roe, call.sector_roe) THEN 1 ELSE 0)
    + (IF RelativeAvailable(call.tech.roa, call.sector_roa) THEN 1 ELSE 0)

IsRound1(v, x, d) == v % 10 = 0 /\ 2 * Abs(v * d - x) <= 10 * d

\* v is the relative score of actual against sector, rounded to one decimal
IsRoundedRelative(v, actual, sector) ==
    IF ~RelativeAvailable(actual, sector) THEN v = None
    ELSE v # None /\ IsRound1(Val(v), ExactRelative(actual, sector)[1],
                              ExactRelative(actual, sector)[2])

C15_TechUnchanged ==
    IsCorrectionCall =>
        /\ call.tech_after = call.tech
        /\ DOMAIN call.ret = {"q_base", "q_corrected", "qvt_corrected", "roe_rel", "roa_rel"}

\* a call that corrected Q while the tech dict kept its q_score
C15_Witness ==
    /\ IsCorrectionCall
    /\ call.ret.q_corrected # call.tech.q_score
    /\ call.tech.q_score = 6000
    /\ call.tech_after.q_score = 6000

----------------------------------------------------------------------------
(* Properties of the mode and of the Bollinger classification *)

\* C16: compute_t_metrics sets t_mode to "trend" exactly when ma_25 > ma_50 >
\* ma_75, both strict, and to "contrarian" otherwise, ties included.
C16_ModeFromMAOrder ==
    call.fn = "compute_t_metrics" =>
        /\ call.ret.t_mode \in {"trend", "contrarian"}
        /\ call.ret.t_mode = "trend" <=> (call.ma_25 > call.ma_50 /\ call.ma_50 > call.ma_75)

\* 25MA = 50MA > 75MA: a tie, contrarian
C16_Witness ==
    /\ call.fn = "compute_t_metrics"
    /\ call.ma_25 = call.ma_50 /\ call.ma_50 > call.ma_75
    /\ call.ret.t_mode = "contrarian"

\* C17: judge_bb_signal tests +2 sigma, +1 sigma, -2 sigma, -1 sigma in that
\* order with inclusive comparisons, the first match winning; a price equal
\* to the +2 sigma band is "extremely overbought" with strength 3; the
\* strength is always 1, 2 or 3.
C17_BBOrderInclusive ==
    call.fn = "judge_bb_signal" =>
        /\ call.ret.strength \in {1, 2, 3}
        /\ call.price >= call.bb_plus2 =>
             (call.ret.text = "bb_plus2" /\ call.ret.strength = 3)
        /\ (call.price < call.bb_plus2 /\ call.price >= call.bb_plus1) =>
             (call.ret.text = "bb_plus1" /\ call.ret.strength = 2)
        /\ (call.price < call.bb_plus2 /\ call.price < call.bb_plus1
            /\ call.price <= call.bb_minus2) =>
             (call.ret.text = "bb_minus2" /\ call.ret.strength = 3)
        /\ (call.price < call.bb_plus2 /\ call.price < call.bb_plus1
            /\ call.price > call.bb_minus2 /\ call.price <= call.bb_minus1) =>
             (call.ret.text = "bb_minus1" /\ call.ret.strength = 2)
        /\ (call.price < call.bb_plus2 /\ call.price < call.bb_plus1
            /\ call.price > call.bb_minus2 /\ call.price > call.bb_minus1) =>
             (call.ret.text = "bb_neutral" /\ call.ret.strength = 1)

\* a price exactly on the +2 sigma band, above the +1 sigma band
C17_Witness ==
    /\ call.fn = "judge_bb_signal"
    /\ call.price = call.bb_plus2
    /\ call.bb_plus1 < call.bb_plus2
    /\ call.ret.text = "bb_plus2"
    /\ call.ret.strength = 3

----------------------------------------------------------------------------
(* Properties of the composite score, of repeated calls and of main() *)

\* C18: qvt_score of compute_indicators is the mean of the returned q_score,
\* v_score and t_score rounded to one decimal, and qvt_corrected of
\* apply_q_correction is the mean of q_corrected and the base v_score and
\* t_score, rounded to one decimal.
C18_QVTIsMean ==
    /\ tech # None =>
         IsRound1(tech.qvt_score, tech.q_score + tech.v_score + tech.t_score, 3)
    /\ IsCorrectionCall =>
         /\ IsRound1(call.ret.qvt_corrected,
                     call.ret.q_corrected + call.tech.v_score + call.tech.t_score, 3)
         /\ call.tech.v_score = tech.v_score
         /\ call.tech.t_score = tech.t_score

\* a run of main() in which the Q tab corrected Q and with it QVT
C18_Witness ==
    /\ pc = "end"
    /\ IsCorrectionCall
    /\ call.ret.q_corrected # tech.q_score
    /\ call.ret.qvt_corrected # tech.qvt_score

\* the score and classification fields compared between two calls
ScoreFields ==
    {"q_score", "v_score", "t_score", "qvt_score", "t_mode", "timing_label",
     "high_price_alert", "signal_strength", "bb_strength"}

EvaluationFailed == ui.fetch = "ValueError" \/ raised = "ValueError"

Rendered(item) == \E k \in 1..Len(ui.screen) : ui.screen[k] = item

\* C20: when get_price_and_meta or compute_indicators raises ValueError the
\* error is shown and the run stops before the header or any tab is
\* rendered; no fetch happens without an API key or with an empty ticker.
C20_NoRenderAfterFailure ==
    /\ EvaluationFailed =>
         /\ \A item \in {"header", "tab_t", "tab_q", "tab_v", "tab_qvt"} : ~Rendered(item)
         /\ pc \in {"done", "stopped"}
         /\ pc = "stopped" => Rendered("error")
    /\ ui.fetch # "none" => (ui.has_key /\ ui.ticker # "")
    /\ (pc # "start" /\ ~ui.has_key) => (pc = "stopped" /\ ui.screen = << "error" >>)
    /\ (pc \notin {"start", "ticker"} /\ ui.ticker = "") => pc = "stopped"

\* compute_indicators raised on a short frame: the error and nothing else
C20_Witness ==
    /\ pc = "stopped"
    /\ raised = "ValueError"
    /\ ui.fetch = "ok"
    /\ ui.ticker = "7203.T"
    /\ ui.screen = << "error" >>

----------------------------------------------------------------------------
(* Properties of a session: several runs of main() sharing st.session_state *)

\* the corrected Q and QVT shown by the QVT tab are a result of
\* apply_q_correction on the tech dict of the run that shows them
ViewFromCurrentEvaluation ==
    \E sector_roe \in SectorRoeInputs, sector_roa \in SectorRoaInputs :
        \E result \in apply_q_correction(tech, sector_roe, sector_roa) :
            /\ Val(ui.qvt_view).q = result.q_corrected
            /\ Val(ui.qvt_view).qvt = result.qvt_corrected

\* C21: the corrected Q and corrected QVT presented by render_qvt_tab derive
\* from the evaluation currently displayed: a correction stored while an
\* earlier ticker was evaluated is not presented as the scores of a later
\* evaluation.
C21_ViewFromCurrentEvaluation ==
    (pc = "end" /\ Val(ui.qvt_view).corrected) =>
        /\ Val(session_state).q_base = tech.q_score
        /\ tech.roe # None /\ tech.roa # None
        /\ ViewFromCurrentEvaluation

----------------------------------------------------------------------------
(* Properties of indicators.py at the repository root *)

\* C22: compute_indicators of indicators.py completes without raising in
\* trend and in contrarian mode and returns t_score, t_mode, timing_label
\* and qvt_score: each call of _score_timing_trend and
\* _score_timing_contrarian is accepted by the definition bound to the name.
C22_RootComputeCompletes ==
    call.fn = "indicators.compute_indicators" =>
        /\ call.raised = "none"
        /\ call.ret # None
        /\ {"t_score", "t_mode", "timing_label", "qvt_score"} \subseteq DOMAIN Val(call.ret)

\* C23: slope_arrow is "up" when the most recent non-null value exceeds the
\* value window periods back, "down" when it is less, "flat" when the two
\* are equal or fewer than window + 1 non-null points exist.
C23_ArrowComparesWindowBack ==
    call.fn = "slope_arrow" =>
        LET s == dropna(call.series)
            n == Len(s)
        IN  call.ret = IF n < call.window + 1 THEN "flat"
                       ELSE IF s[n] > s[n - call.window] THEN "up"
                       ELSE IF s[n] < s[n - call.window] THEN "down"
                       ELSE "flat"

----------------------------------------------------------------------------
(* Properties of calc_rsi and of the ratio guards *)

\* the row "last = df_valid.iloc[-1]" is read from
LastValidRow ==
    ILocFromEnd(df_valid_rows(Len(df.close), NullRows(df.close)), Len(df.close), 1)

\* the 14-period average loss on the last valid row is exactly zero
ZeroAverageLoss == SumLoss(df.close, LastValidRow - 13, LastValidRow) = 0

\* C24: on every window whose 14-period average loss is exactly zero the
\* average loss is replaced by 1e-10 before dividing, so the division is
\* defined and the resulting RSI is driven toward 100.
C24_ZeroLossDrivesRSITo100 ==
    (Returned /\ ZeroAverageLoss) => tech.rsi = 10000

\* ROE and ROA both equal the sector averages (ratio 1.0 for both)
AtSectorAverage ==
    /\ IsCorrectionCall
    /\ SectorGiven(call.sector_roe) /\ call.tech.roe = call.sector_roe
    /\ SectorGiven(call.sector_roa) /\ call.tech.roa = call.sector_roa

\* C25: a company whose ROE and ROA equal the sector averages gets the
\* relative score 70 (the neutral reference), hence a zero deviation, and
\* apply_q_correction returns q_corrected equal to q_base.
C25_SectorAverageIsNeutral ==
    AtSectorAverage =>
        /\ call.ret.roe_rel = Some(NEUTRAL_REL)
        /\ call.ret.roa_rel = Some(NEUTRAL_REL)
        /\ call.ret.q_corrected = call.ret.q_base

----------------------------------------------------------------------------
(* Properties of judge_signal and of the zone scores *)

\* the rules of judge_signal as conditions on the arguments of the call
\* (RSI present)
StrongRule ==
    call.price <= call.ma_75 /\ Val(call.rsi) < 4000 /\ call.price <= call.bb_minus1

ModerateRule ==
    \/ (call.price <= call.ma_75 /\ call.price < call.bb_minus1)
    \/ (Val(call.rsi) < 3000 /\ call.price < call.bb_minus1)

MildRule ==
    /\ call.price * 100 < call.ma_25 * 97
    /\ Val(call.rsi) < 3750
    /\ call.price <= call.bb_minus1

ZoneRule ==
    is_high_price_zone(call.price, call.ma_25, call.ma_50, call.bb_plus1, call.rsi,
                       None, None, call.high_52w) <= 40

\* C27: judge_signal returns "RSI unknown" with strength 0 when RSI is None;
\* otherwise its rules apply in order, first match wins: strength 3 before 2
\* before 1, the overbought-zone result (zone score <= 40, strength 0) only
\* when no pullback rule matches; the strength is always 0, 1, 2 or 3.
C27_SignalRuleOrder ==
    call.fn = "judge_signal" =>
        /\ call.ret.strength \in 0..3
        /\ call.rsi = None =>
             (call.ret.text = "rsi_unknown" /\ call.ret.strength = 0)
        /\ call.rsi # None =>
             /\ StrongRule =>
                  (call.ret.text = "bargain" /\ call.ret.strength = 3)
             /\ (~StrongRule /\ ModerateRule) =>
                  (call.ret.text = "moderate_pullback" /\ call.ret.strength = 2)
             /\ (~StrongRule /\ ~ModerateRule /\ MildRule) =>
                  (call.ret.text = "mild_pullback" /\ call.ret.strength = 1)
             /\ (~StrongRule /\ ~ModerateRule /\ ~MildRule) =>
                  /\ call.ret.strength = 0
                  /\ call.ret.text = IF ZoneRule THEN "high_zone_alert" ELSE "no_signal"

\* the moderate rule and the overbought-zone rule both match: strength 2
C27_Witness ==
    /\ call.fn = "judge_signal"
    /\ call.rsi # None
    /\ ~StrongRule /\ ModerateRule /\ ZoneRule
    /\ call.ret.strength = 2

\* the points of a criterion that holds, 0 of one that does not
Term(points, criterion) == IF criterion THEN points ELSE 0

\* C28: is_high_price_zone is the sum of the independently evaluated terms
\* +20 (price <= 1.10 x 25MA and 50MA), +20 (price <= +1 sigma), +15 (RSI
\* present and < 70), +15 (52-week high known and price < 0.95 x high), in
\* [0, 70]; is_low_price_zone is the sum of its five terms 20, 15, 20, 15, 15,
\* in [0, 85]; an absent RSI or 52-week value contributes 0.
C28_ZoneScoresAreSums ==
    call.fn = "price_zones" =>
        /\ call.highprice_score =
             Term(20, call.price * 100 <= call.ma_25 * 110 /\ call.price * 100 <= call.ma_50 * 110)
             + Term(20, call.price <= call.bb_plus1)
             + Term(15, call.rsi # None /\ Val(call.rsi) < 7000)
             + Term(15, call.high_52w # None /\ call.price * 100 < Val(call.high_52w) * 95)
        /\ call.highprice_score \in 0..70
        /\ call.low_score =
             Term(20, call.price * 100 < call.ma_25 * 90 /\ call.price * 100 < call.ma_50 * 90)
             + Term(15, call.price < call.bb_minus1)
             + Term(20, call.price < call.bb_minus2)
             + Term(15, call.rsi # None /\ Val(call.rsi) < 3000)
             + Term(15, call.low_52w # None /\ call.price * 100 <= Val(call.low_52w) * 105)
        /\ call.low_score \in 0..85

\* every term of both scores contributes: 70 and 85
C28_Witness ==
    /\ call.fn = "price_zones"
    /\ call.highprice_score = 70
    /\ call.low_score = 85

----------------------------------------------------------------------------
(* Properties of the data-sufficiency test and of the two signals together *)

\* the frame handed to compute_indicators has no missing close
ConsecutiveCloses == pc = "done" /\ NullRows(df.close) = {}

\* C29: for a series of N consecutive non-null closes compute_indicators
\* succeeds if and only if N >= 79 and raises the insufficient-data error
\* for every N <= 78.
C29_SucceedsFrom79Rows ==
    ConsecutiveCloses =>
        /\ raised = "none" <=> Len(df.close) >= 79
        /\ Len(df.close) <= 78 => (raised = "ValueError" /\ tech = None)

\* exactly 79 closes: rows 75 to 79 are fully populated and the call succeeds
C29_Witness ==
    /\ ConsecutiveCloses
    /\ Len(df.close) = 79
    /\ raised = "none"
    /\ tech # None

\* the Bollinger classification of compute_t_metrics is an overbought one
OverboughtBand == call.ret.bb_text \in {"bb_plus1", "bb_plus2"}

\* C30: whenever judge_signal returns a pullback strength >= 1 the price is
\* at or below the -1 sigma band; so, for a snapshot whose -1 sigma band is
\* strictly below its +1 sigma band, compute_t_metrics never returns a
\* pullback strength >= 1 together with an overbought Bollinger
\* classification (price >= +1 sigma or >= +2 sigma).
C30_PullbackNeverOverbought ==
    /\ (call.fn = "judge_signal" /\ call.ret.strength >= 1) =>
         call.price <= call.bb_minus1
    /\ (call.fn = "compute_t_metrics" /\ call.raised = "none"
          /\ call.bb_minus1 < call.bb_plus1 /\ call.ret.signal_strength >= 1) =>
         /\ call.price <= call.bb_minus1
         /\ ~OverboughtBand

\* a pullback of strength 2 reported with the -1 sigma classification
C30_Witness ==
    /\ call.fn = "compute_t_metrics"
    /\ call.bb_minus1 < call.bb_plus1
    /\ call.ret.signal_strength = 2
    /\ call.ret.bb_text = "bb_minus1"

====
